---- MODULE Spec2Model ----
(***************************************************************************)
(* Model of the odordb ingestion engine (src/ingest.py) and its store      *)
(* (src/schema.py).  Python strings are TLA+ strings, used as character    *)
(* sequences (Len, SubSeq, \o).  A DataFrame is a record of its column     *)
(* list and its rows; a row is a function from column name to cell.        *)
(***************************************************************************)
EXTENDS Integers, Sequences, FiniteSets, TLC

(* ------------------------------------------------------------------ *)
(* Python str operations                                              *)
(* ------------------------------------------------------------------ *)

Char(s, i) == SubSeq(s, i, i)

\* The characters the model uses, in code point order.
Alphabet == "\t +-.0123456789:ABCDEFGHIJKLMNOPQRSTUVWXYZ_abcdefghijklmnopqrstuvwxyz"

\* the position of each character, tabulated
OrdOf ==
    [c \in {Char(Alphabet, i) : i \in 1..Len(Alphabet)} |->
        CHOOSE i \in 1..Len(Alphabet) : Char(Alphabet, i) = c]

Ord(c) == OrdOf[c]

UpperChars == "ABCDEFGHIJKLMNOPQRSTUVWXYZ"

LowerChars == "abcdefghijklmnopqrstuvwxyz"

Whitespace == {" ", "\t"}

Digits == {"0", "1", "2", "3", "4", "5", "6", "7", "8", "9"}

\* the lower-case letter of each upper-case letter, tabulated
LowerOf ==
    [c \in {Char(UpperChars, i) : i \in 1..Len(UpperChars)} |->
        Char(LowerChars, CHOOSE i \in 1..Len(UpperChars) : Char(UpperChars, i) = c)]

LowerChar(c) == IF c \in DOMAIN LowerOf THEN LowerOf[c] ELSE c

RECURSIVE Lower(_)
\* str.lower()
Lower(s) == IF s = "" THEN "" ELSE LowerChar(Head(s)) \o Lower(Tail(s))

RECURSIVE LStrip(_)
LStrip(s) == IF s # "" /\ Head(s) \in Whitespace THEN LStrip(Tail(s)) ELSE s

RECURSIVE RStrip(_)
RStrip(s) ==
    IF s # "" /\ Char(s, Len(s)) \in Whitespace
    THEN RStrip(SubSeq(s, 1, Len(s) - 1))
    ELSE s

\* str.strip()
Strip(s) == RStrip(LStrip(s))

\* str.startswith / str.endswith
StartsWith(s, p) == Len(s) >= Len(p) /\ SubSeq(s, 1, Len(p)) = p

EndsWith(s, p) == Len(s) >= Len(p) /\ SubSeq(s, Len(s) - Len(p) + 1, Len(s)) = p

RECURSIVE StrLess(_, _)
\* s < t on Python strings (code point order)
StrLess(s, t) ==
    IF t = "" THEN FALSE
    ELSE IF s = "" THEN TRUE
    ELSE IF Head(s) = Head(t) THEN StrLess(Tail(s), Tail(t))
    ELSE Ord(Head(s)) < Ord(Head(t))

\* Sorted in descending order
SortedDescending(S) ==
    CHOOSE q \in [1..Cardinality(S) -> S] :
        \A i, j \in 1..Cardinality(S) : i < j => StrLess(q[j], q[i])

\* sorted(names) for a set of distinct strings
Sorted(S) ==
    CHOOSE q \in [1..Cardinality(S) -> S] :
        \A i, j \in 1..Cardinality(S) : i < j => StrLess(q[i], q[j])

(* ------------------------------------------------------------------ *)
(* Python float values and float(text)                                *)
(* ------------------------------------------------------------------ *)

\* A float is nan, +/-inf (m is the sign) or the finite value m * 10^e,
\* kept normalised: m = 0 gives e = 0, otherwise 10 does not divide m.
FloatNaN == [cls |-> "nan", m |-> 0, e |-> 0]

FloatInf(sign) == [cls |-> "inf", m |-> sign, e |-> 0]

RECURSIVE Normalise(_, _)
Normalise(m, e) ==
    IF m = 0 THEN [cls |-> "fin", m |-> 0, e |-> 0]
    ELSE IF m % 10 = 0 THEN Normalise(m \div 10, e + 1)
    ELSE [cls |-> "fin", m |-> m, e |-> e]

RECURSIVE NumDigits(_)
NumDigits(n) == IF n < 10 THEN 1 ELSE 1 + NumDigits(n \div 10)

RECURSIVE LeadTwo(_)
LeadTwo(n) == IF n < 100 THEN (IF n < 10 THEN n * 10 ELSE n) ELSE LeadTwo(n \div 10)

Abs(n) == IF n < 0 THEN -n ELSE n

\* Largest decimal exponent of a finite double (sys.float_info.max_10_exp).
DBL_MAX_10_EXP == 308

\* The double nearest to m * 10^e: values beyond the largest double
\* (1.797...e308, compared on two leading digits) become infinity.
MakeFloat(m, e) ==
    LET f == Normalise(m, e)
        mag == NumDigits(Abs(f.m)) + f.e - 1
    IN  IF f.m # 0 /\ (mag > DBL_MAX_10_EXP
                       \/ (mag = DBL_MAX_10_EXP /\ LeadTwo(Abs(f.m)) >= 18))
        THEN FloatInf(IF f.m < 0 THEN -1 ELSE 1)
        ELSE f

\* digit (["_"] digit)* : the digit groups float() and int() accept
IsDigitPart(s) ==
    /\ s # ""
    /\ \A i \in 1..Len(s) :
          \/ Char(s, i) \in Digits
          \/ /\ Char(s, i) = "_"
             /\ i > 1 /\ i < Len(s)
             /\ Char(s, i - 1) \in Digits /\ Char(s, i + 1) \in Digits

DigitVal(c) == Ord(c) - Ord("0")

RECURSIVE DigitsValue(_, _)
DigitsValue(s, acc) ==
    IF s = "" THEN acc
    ELSE IF Head(s) = "_" THEN DigitsValue(Tail(s), acc)
    ELSE DigitsValue(Tail(s), acc * 10 + DigitVal(Head(s)))

RECURSIVE CountDigits(_)
CountDigits(s) ==
    IF s = "" THEN 0
    ELSE (IF Head(s) \in Digits THEN 1 ELSE 0) + CountDigits(Tail(s))

HasSign(s) == s # "" /\ Head(s) \in {"+", "-"}

SignOf(s) == IF s # "" /\ Head(s) = "-" THEN -1 ELSE 1

Unsigned(s) == IF HasSign(s) THEN Tail(s) ELSE s

\* position of the first character of s that is in C, or 0
FirstIn(s, C) ==
    IF \E i \in 1..Len(s) : Char(s, i) \in C
    THEN CHOOSE i \in 1..Len(s) :
            Char(s, i) \in C /\ \A j \in 1..(i - 1) : Char(s, j) \notin C
    ELSE 0

ParseError == [ok |-> FALSE, f |-> FloatNaN]

\* float(text): the value, or ok = FALSE where Python raises ValueError.
PyFloat(text) ==
    LET t    == Strip(text)
        sign == SignOf(t)
        body == Unsigned(t)
        ePos == FirstIn(body, {"e", "E"})
        mant == IF ePos = 0 THEN body ELSE SubSeq(body, 1, ePos - 1)
        expo == IF ePos = 0 THEN "" ELSE SubSeq(body, ePos + 1, Len(body))
        dPos == FirstIn(mant, {"."})
        ipart == IF dPos = 0 THEN mant ELSE SubSeq(mant, 1, dPos - 1)
        fpart == IF dPos = 0 THEN "" ELSE SubSeq(mant, dPos + 1, Len(mant))
        mantOk == /\ ipart = "" \/ IsDigitPart(ipart)
                  /\ fpart = "" \/ IsDigitPart(fpart)
                  /\ ipart # "" \/ fpart # ""
        expOk == ePos = 0 \/ IsDigitPart(Unsigned(expo))
        expVal == IF ePos = 0 THEN 0
                  ELSE SignOf(expo) * DigitsValue(Unsigned(expo), 0)
    IN  IF Lower(body) \in {"inf", "infinity"} THEN [ok |-> TRUE, f |-> FloatInf(sign)]
        ELSE IF Lower(body) = "nan" THEN [ok |-> TRUE, f |-> FloatNaN]
        ELSE IF mantOk /\ expOk
             THEN [ok |-> TRUE,
                   f |-> MakeFloat(sign * DigitsValue(ipart \o fpart, 0),
                                   expVal - CountDigits(fpart))]
             ELSE ParseError

\* float(n) for a Python int
FloatInt(n) == MakeFloat(n, 0)

RECURSIVE NatToStr(_)
NatToStr(n) ==
    IF n < 10 THEN Char("0123456789", n + 1)
    ELSE NatToStr(n \div 10) \o Char("0123456789", (n % 10) + 1)

\* str(n) for an int
IntToStr(n) == IF n < 0 THEN "-" \o NatToStr(-n) ELSE NatToStr(n)

RECURSIVE Zeros(_)
Zeros(k) == IF k <= 0 THEN "" ELSE "0" \o Zeros(k - 1)

TwoDigits(n) == IF n < 10 THEN "0" \o NatToStr(n) ELSE NatToStr(n)

\* str(x) for a float (float_repr_style 'short'): fixed notation while the
\* decimal point position p satisfies -4 < p <= 16, exponent form otherwise.
FloatToStr(f) ==
    IF f.cls = "nan" THEN "nan"
    ELSE IF f.cls = "inf" THEN (IF f.m < 0 THEN "-inf" ELSE "inf")
    ELSE LET sgn == IF f.m < 0 THEN "-" ELSE ""
             ds  == NatToStr(Abs(f.m))
             n   == Len(ds)
             p   == n + f.e
         IN  IF f.m = 0 THEN "0.0"
             ELSE IF p > -4 /\ p <= 16
                  THEN IF p <= 0 THEN sgn \o "0." \o Zeros(-p) \o ds
                       ELSE IF p >= n THEN sgn \o ds \o Zeros(p - n) \o ".0"
                       ELSE sgn \o SubSeq(ds, 1, p) \o "." \o SubSeq(ds, p + 1, n)
                  ELSE sgn \o Char(ds, 1)
                           \o (IF n > 1 THEN "." \o SubSeq(ds, 2, n) ELSE "")
                           \o "e" \o (IF p - 1 < 0 THEN "-" ELSE "+")
                           \o TwoDigits(Abs(p - 1))

(* ------------------------------------------------------------------ *)
(* Cells, Optional values                                             *)
(* ------------------------------------------------------------------ *)

\* Optional[str] / Optional[float] and a nullable column of the store
None == [some |-> FALSE, v |-> ""]

Some(s) == [some |-> TRUE, v |-> s]

NoNum == [some |-> FALSE, f |-> FloatNaN]

SomeNum(f) == [some |-> TRUE, f |-> f]

\* A cell of a DataFrame row as pandas hands it to the code: Python None,
\* a float (NaN for an empty CSV field), a Python int, a numpy integer
\* (not an instance of int), or a str.
PyNone == [k |-> "None", s |-> "", f |-> FloatNaN]

NaN == [k |-> "float", s |-> "", f |-> FloatNaN]

FloatCell(f) == [k |-> "float", s |-> "", f |-> f]

IntCell(n) == [k |-> "int", s |-> IntToStr(n), f |-> FloatInt(n)]

NpIntCell(n) == [k |-> "npint", s |-> IntToStr(n), f |-> FloatInt(n)]

StrCell(s) == [k |-> "str", s |-> s, f |-> FloatNaN]

\* str(value)
PyStr(c) ==
    CASE c.k = "None"  -> "None"
      [] c.k = "float" -> FloatToStr(c.f)
      [] c.k = "int"   -> c.s
      [] c.k = "npint" -> c.s
      [] c.k = "str"   -> c.s

\* isinstance(value, float) and math.isnan(value)
IsFloatNaN(c) == c.k = "float" /\ c.f.cls = "nan"

\* SafeStr without the strip
SafeStrUntrimmed(c) ==
    IF c.k = "None" THEN None
    ELSE IF IsFloatNaN(c) THEN None
    ELSE LET text == PyStr(c)
         IN  IF text = "" THEN None ELSE Some(text)

\* _safe_str
SafeStr(c) ==
    IF c.k = "None" THEN None
    ELSE IF IsFloatNaN(c) THEN None
    ELSE LET text == Strip(PyStr(c))
         IN  IF text = "" THEN None ELSE Some(text)

\* Series.astype(str) on one element
AsTypeStr(c) == StrCell(PyStr(c))

(* ------------------------------------------------------------------ *)
(* DataFrames and the lookup helpers of src/ingest.py                 *)
(* ------------------------------------------------------------------ *)

\* Datasets with more rows than this (sum across behavior*.csv) are skipped.
MAX_ROWS_PER_DATASET == 5000

\* A CSV file of a dataset folder.  pd.read_csv raises when readable is
\* FALSE; otherwise the DataFrame has the columns cols (in order), the rows
\* rows (each a function from column to cell) followed by blank further
\* rows whose cells are all whitespace-only strings.
NoFile == [exists |-> FALSE, readable |-> FALSE, cols |-> <<>>, rows |-> <<>>, blank |-> 0]

Csv(cols, rows, blank) ==
    [exists |-> TRUE, readable |-> TRUE, cols |-> cols, rows |-> rows, blank |-> blank]

Unreadable == [exists |-> TRUE, readable |-> FALSE, cols |-> <<>>, rows |-> <<>>, blank |-> 0]

\* Optional[pd.DataFrame] / Optional[pd.Series]
NoFrame == [some |-> FALSE, cols |-> <<>>, rows |-> <<>>, blank |-> 0]

Frame(csv) == [some |-> TRUE, cols |-> csv.cols, rows |-> csv.rows, blank |-> csv.blank]

NoRow == [some |-> FALSE, cols |-> <<>>, cells |-> <<>>]

\* a row keeps the column order of its frame (row.index)
Row(cols, cells) == [some |-> TRUE, cols |-> cols, cells |-> cells]

\* len(df)
DfLen(df) == Len(df.rows) + df.blank

\* df.empty
DfEmpty(df) == DfLen(df) = 0 \/ Len(df.cols) = 0

Range(q) == {q[i] : i \in 1..Len(q)}

RECURSIVE PickFirstPresentStopAtBlank(_, _)
\* PickFirstPresent giving up at the first candidate the row has, blank or
\* not
PickFirstPresentStopAtBlank(row, candidates) ==
    IF candidates = <<>> THEN None
    ELSE LET col == Head(candidates)
         IN  IF col \in Range(row.cols)
             THEN SafeStr(row.cells[col])
             ELSE PickFirstPresentStopAtBlank(row, Tail(candidates))

\* _pick_first_present: cands[i] for the first i on which the row has a
\* non-blank value
RECURSIVE PickFirstPresent(_, _)
PickFirstPresent(row, candidates) ==
    IF candidates = <<>> THEN None
    ELSE LET col == Head(candidates)
         IN  IF col \in Range(row.cols) /\ SafeStr(row.cells[col]).some
             THEN SafeStr(row.cells[col])
             ELSE PickFirstPresent(row, Tail(candidates))

RECURSIVE FindStimulusPrefix(_)
\* FindStimulusIn accepting any column whose name starts with "stimulus"
FindStimulusPrefix(cols) ==
    IF cols = <<>> THEN None
    ELSE IF StartsWith(Lower(Strip(Head(cols))), "stimulus") THEN Some(Head(cols))
    ELSE FindStimulusPrefix(Tail(cols))

RECURSIVE FindStimulusIn(_)
FindStimulusIn(cols) ==
    IF cols = <<>> THEN None
    ELSE IF Lower(Strip(Head(cols))) = "stimulus" THEN Some(Head(cols))
    ELSE FindStimulusIn(Tail(cols))

\* _find_stimulus_column
FindStimulusColumn(df) == FindStimulusIn(df.cols)

\* _load_stimuli
LoadStimuli(dir) ==
    LET f == dir.stimuli
    IN  IF ~f.exists THEN NoFrame
        ELSE IF ~f.readable THEN NoFrame
        ELSE IF DfEmpty(f) THEN NoFrame
        ELSE IF ~FindStimulusColumn(f).some THEN NoFrame
        ELSE Frame(f)

\* _load_molecules; the CID column is converted with astype(str)
LoadMolecules(dir) ==
    LET f == dir.molecules
    IN  IF ~f.exists THEN NoFrame
        ELSE IF ~f.readable THEN NoFrame
        ELSE IF DfEmpty(f) THEN NoFrame
        ELSE IF "CID" \notin Range(f.cols) THEN NoFrame
        ELSE [some |-> TRUE, cols |-> f.cols, blank |-> f.blank,
              rows |-> [i \in 1..Len(f.rows) |->
                          [f.rows[i] EXCEPT !["CID"] = AsTypeStr(@)]]]

\* first row of df whose column col, as str, equals key
FirstMatch(df, col, key) ==
    IF \E i \in 1..Len(df.rows) : PyStr(df.rows[i][col]) = key
    THEN LET i == CHOOSE k \in 1..Len(df.rows) :
                     /\ PyStr(df.rows[k][col]) = key
                     /\ \A j \in 1..(k - 1) : PyStr(df.rows[j][col]) # key
         IN  Row(df.cols, df.rows[i])
    ELSE NoRow

\* _get_stimulus_row
GetStimulusRow(stim_df, stimulus_value) ==
    IF ~stim_df.some THEN NoRow
    ELSE IF FindStimulusColumn(stim_df).some
         THEN FirstMatch(stim_df, FindStimulusColumn(stim_df).v, stimulus_value)
         ELSE NoRow

\* GetMoleculeRow handing out the first molecule row whatever the CID
GetMoleculeRowFirst(mol_df, cid) ==
    IF ~mol_df.some \/ mol_df.rows = <<>> THEN NoRow
    ELSE Row(mol_df.cols, mol_df.rows[1])

\* _get_molecule_row
GetMoleculeRow(mol_df, cid) ==
    IF ~mol_df.some \/ ~cid.some THEN NoRow
    ELSE FirstMatch(mol_df, "CID", cid.v)

(* ------------------------------------------------------------------ *)
(* Identity building                                                  *)
(* ------------------------------------------------------------------ *)

CID_CANDIDATES_STIM == <<"CID", "cid", "PubChemCID", "pubchem_cid", "new_CID">>

CAS_CANDIDATES == <<"CAS", "cas", "CASNo", "CASNo.", "cas_number", "C.A.S.">>

NAME_CANDIDATES ==
    <<"name", "Name", "OdorName", "Odorant name", "Odorant", "OdorantName", "ChemicalName">>

SMILES_CANDIDATES == <<"IsomericSMILES", "SMILES", "CanonicalSMILES">>

\* UnifiedId with the CAS tested before the CID
UnifiedIdCasFirst(slug, stimulus, cid, cas) ==
    IF cas.some THEN "CAS:" \o cas.v
    ELSE IF cid.some THEN "CID:" \o cid.v
    ELSE "OID:" \o slug \o ":" \o stimulus

\* UnifiedId without the CAS branch
UnifiedIdNoCas(slug, stimulus, cid, cas) ==
    IF cid.some THEN "CID:" \o cid.v
    ELSE "OID:" \o slug \o ":" \o stimulus

\* the unified id of lines 174-179
UnifiedId(slug, stimulus, cid, cas) ==
    IF cid.some THEN "CID:" \o cid.v
    ELSE IF cas.some THEN "CAS:" \o cas.v
    ELSE "OID:" \o slug \o ":" \o stimulus

\* _identity_from_rows
IdentityFromRows(slug, stimulus, stim_row, mol_row) ==
    LET cid0 == IF mol_row.some /\ "CID" \in Range(mol_row.cols)
                THEN SafeStr(mol_row.cells["CID"]) ELSE None
        cid  == IF ~cid0.some /\ stim_row.some
                THEN PickFirstPresent(stim_row, CID_CANDIDATES_STIM) ELSE cid0
        cas0 == IF stim_row.some THEN PickFirstPresent(stim_row, CAS_CANDIDATES) ELSE None
        cas  == IF ~cas0.some /\ mol_row.some
                THEN PickFirstPresent(mol_row, CAS_CANDIDATES) ELSE cas0
        name0 == IF mol_row.some THEN PickFirstPresent(mol_row, NAME_CANDIDATES) ELSE None
        name  == IF ~name0.some /\ stim_row.some
                 THEN PickFirstPresent(stim_row, NAME_CANDIDATES) ELSE name0
        smiles0 == IF mol_row.some THEN PickFirstPresent(mol_row, SMILES_CANDIDATES) ELSE None
        smiles  == IF ~smiles0.some /\ stim_row.some
                   THEN PickFirstPresent(stim_row, SMILES_CANDIDATES) ELSE smiles0
    IN  [unified_odor_id |-> UnifiedId(slug, stimulus, cid, cas),
         slug     |-> slug,
         stimulus |-> stimulus,
         name     |-> IF name.some THEN name ELSE Some(stimulus),
         cid      |-> cid,
         cas      |-> cas,
         smiles   |-> smiles]

(* ------------------------------------------------------------------ *)
(* The store: tables odors and odor_facts (src/schema.py)             *)
(* ------------------------------------------------------------------ *)

\* TRIM(x) of SQLite removes spaces only
RECURSIVE SqlTrim(_)
SqlTrim(s) ==
    IF s # "" /\ Head(s) = " " THEN SqlTrim(Tail(s))
    ELSE IF s # "" /\ Char(s, Len(s)) = " " THEN SqlTrim(SubSeq(s, 1, Len(s) - 1))
    ELSE s

\* INSERT OR REPLACE for INSERT OR IGNORE
InsertOrReplace(rows, ident) ==
    {r \in rows : r.unified_odor_id # ident.unified_odor_id}
        \cup {[unified_odor_id |-> ident.unified_odor_id,
               slug_first      |-> Some(ident.slug),
               stimulus_first  |-> Some(ident.stimulus),
               name            |-> ident.name,
               cid             |-> ident.cid,
               cas             |-> ident.cas,
               smiles          |-> ident.smiles]}

\* INSERT OR IGNORE INTO odors: unified_odor_id is the primary key
InsertOrIgnore(rows, ident) ==
    IF \E r \in rows : r.unified_odor_id = ident.unified_odor_id
    THEN rows
    ELSE rows \cup {[unified_odor_id |-> ident.unified_odor_id,
                     slug_first      |-> Some(ident.slug),
                     stimulus_first  |-> Some(ident.stimulus),
                     name            |-> ident.name,
                     cid             |-> ident.cid,
                     cas             |-> ident.cas,
                     smiles          |-> ident.smiles]}

\* FillIfNull without the IS NULL test
FillAlways(rows, col, value, uid) ==
    IF ~value.some THEN rows
    ELSE {IF r.unified_odor_id = uid THEN [r EXCEPT ![col] = value] ELSE r : r \in rows}

\* UPDATE odors SET col = value WHERE unified_odor_id = uid
\*   AND (col IS NULL OR TRIM(col) = '');  skipped when value is None
FillIfNull(rows, col, value, uid) ==
    IF ~value.some THEN rows
    ELSE {IF r.unified_odor_id = uid /\ (~r[col].some \/ SqlTrim(r[col].v) = "")
          THEN [r EXCEPT ![col] = value]
          ELSE r : r \in rows}

\* _upsert_odor: one transaction
UpsertOdorRows(rows, ident) ==
    LET r0 == InsertOrIgnore(rows, ident)
        r1 == FillIfNull(r0, "name", ident.name, ident.unified_odor_id)
        r2 == FillIfNull(r1, "cid", ident.cid, ident.unified_odor_id)
        r3 == FillIfNull(r2, "cas", ident.cas, ident.unified_odor_id)
    IN  FillIfNull(r3, "smiles", ident.smiles, ident.unified_odor_id)

NoValue == [write |-> FALSE, value_text |-> None, value_num |-> NoNum]

\* binding a Python float to a REAL column: SQLite stores NaN as NULL
BindReal(f) == IF f.cls = "nan" THEN NoNum ELSE SomeNum(f)

\* ClassifyValue without the isnan test on parsed text
ClassifyValueNoNaNTest(value) ==
    IF value.k = "None" THEN NoValue
    ELSE IF IsFloatNaN(value) THEN NoValue
    ELSE IF value.k \in {"int", "float"}
         THEN [write |-> TRUE, value_text |-> None, value_num |-> BindReal(value.f)]
         ELSE LET text == SafeStr(value)
                  num  == PyFloat(text.v)
              IN  IF ~text.some THEN NoValue
                  ELSE IF num.ok
                       THEN [write |-> TRUE, value_text |-> None,
                             value_num |-> BindReal(num.f)]
                       ELSE [write |-> TRUE, value_text |-> text, value_num |-> NoNum]

\* lines 237-258 of _insert_fact: whether a row is written, and the two
\* value columns
ClassifyValue(value) ==
    IF value.k = "None" THEN NoValue
    ELSE IF IsFloatNaN(value) THEN NoValue
    ELSE IF value.k \in {"int", "float"}
         THEN [write |-> TRUE, value_text |-> None, value_num |-> BindReal(value.f)]
         ELSE LET text == SafeStr(value)
                  num  == PyFloat(text.v)
              IN  IF ~text.some THEN NoValue
                  ELSE IF num.ok /\ num.f.cls # "nan"
                       THEN [write |-> TRUE, value_text |-> None,
                             value_num |-> BindReal(num.f)]
                       ELSE [write |-> TRUE, value_text |-> text, value_num |-> NoNum]

\* InsertFactRows that skips a row already in the table
InsertFactRowsOnce(rows, ident, slug, filename, column, value) ==
    LET c == ClassifyValue(value)
        row == [unified_odor_id |-> ident.unified_odor_id,
                slug       |-> slug,
                file       |-> filename,
                column     |-> column,
                value_text |-> c.value_text,
                value_num  |-> c.value_num]
    IN  IF ~c.write \/ row \in Range(rows) THEN rows ELSE Append(rows, row)

\* InsertFactRows keeping one row per (odor, slug, file, column): a later
\* value overwrites the row
InsertFactRowsUpsert(rows, ident, slug, filename, column, value) ==
    LET c == ClassifyValue(value)
        row == [unified_odor_id |-> ident.unified_odor_id,
                slug       |-> slug,
                file       |-> filename,
                column     |-> column,
                value_text |-> c.value_text,
                value_num  |-> c.value_num]
        same == {k \in 1..Len(rows) :
                    /\ rows[k].unified_odor_id = row.unified_odor_id
                    /\ rows[k].slug = slug
                    /\ rows[k].file = filename
                    /\ rows[k].column = column}
    IN  IF ~c.write THEN rows
        ELSE IF same # {} THEN [k \in 1..Len(rows) |-> IF k \in same THEN row ELSE rows[k]]
        ELSE Append(rows, row)

\* _insert_fact: odor_facts is append-only, id = position
InsertFactRows(rows, ident, slug, filename, column, value) ==
    LET c == ClassifyValue(value)
    IN  IF ~c.write THEN rows
        ELSE Append(rows, [unified_odor_id |-> ident.unified_odor_id,
                         slug       |-> slug,
                         file       |-> filename,
                         column     |-> column,
                         value_text |-> c.value_text,
                         value_num  |-> c.value_num])

(* ------------------------------------------------------------------ *)
(* Dataset folders                                                    *)
(* ------------------------------------------------------------------ *)

\* os.listdir(slug_dir)
ListDir(dir) ==
    DOMAIN dir.files
        \cup (IF dir.stimuli.exists THEN {"stimuli.csv"} ELSE {})
        \cup (IF dir.molecules.exists THEN {"molecules.csv"} ELSE {})

FileOf(dir, fname) ==
    IF fname \in DOMAIN dir.files THEN dir.files[fname]
    ELSE IF fname = "stimuli.csv" THEN dir.stimuli
    ELSE dir.molecules

\* the file name filter of lines 300 and 342
IsBehaviorCsv(fname) ==
    StartsWith(Lower(fname), "behavior") /\ EndsWith(Lower(fname), ".csv")

RECURSIVE SumRows(_, _)
SumRows(dir, names) ==
    IF names = {} THEN 0
    ELSE LET n == CHOOSE x \in names : TRUE
             f == FileOf(dir, n)
         IN  (IF IsBehaviorCsv(n) /\ f.readable THEN DfLen(f) ELSE 0)
                 + SumRows(dir, names \ {n})

\* _count_behavior_rows
CountBehaviorRows(dir) == SumRows(dir, ListDir(dir))

\* OverGate with >= for >
OverGateInclusive(total_rows) == total_rows >= MAX_ROWS_PER_DATASET

\* total_rows > MAX_ROWS_PER_DATASET (line 323)
OverGate(total_rows) == total_rows > MAX_ROWS_PER_DATASET

\* the files the loop of line 341 visits, in its order
BehaviorFiles(dir) == Sorted({n \in ListDir(dir) : IsBehaviorCsv(n)})

\* the checks of lines 345-361: the file is read, non-empty and has a
\* stimulus column
FileUsable(f) == f.readable /\ ~DfEmpty(f) /\ FindStimulusColumn(f).some

(* ------------------------------------------------------------------ *)
(* The writes one measurement row causes (lines 367-391)              *)
(* ------------------------------------------------------------------ *)

UpsertCall(ident) ==
    [op |-> "upsert", ident |-> ident, file |-> "", column |-> "", value |-> PyNone]

FactCall(ident, filename, column, value) ==
    [op |-> "fact", ident |-> ident, file |-> filename, column |-> column, value |-> value]

\* _insert_row_as_facts: one _insert_fact call per column not skipped
InsertRowAsFacts(ident, filename, row, skip_cols) ==
    IF ~row.some THEN <<>>
    ELSE LET skip == {Lower(Strip(c)) : c \in skip_cols}
             keep(c) == Lower(Strip(c)) \notin skip
             cols == SelectSeq(row.cols, keep)
         IN  [i \in 1..Len(cols) |-> FactCall(ident, filename, cols[i], row.cells[cols[i]])]

\* lines 375-380: the identity of a stimulus value seen for the first time
ResolveIdentity(slug, stim_df, mol_df, stim_value) ==
    LET stim_row == GetStimulusRow(stim_df, stim_value)
        cid_from_stim == IF stim_row.some
                         THEN PickFirstPresent(stim_row, CID_CANDIDATES_STIM)
                         ELSE None
        mol_row == GetMoleculeRow(mol_df, cid_from_stim)
    IN  IdentityFromRows(slug, stim_value, stim_row, mol_row)

\* FirstSightingCalls with the upsert after the fact insertions
FirstSightingCallsUpsertLast(ident, stim_df, mol_df, stim_col) ==
    LET stim_row == GetStimulusRow(stim_df, ident.stimulus)
        cid_from_stim == IF stim_row.some
                         THEN PickFirstPresent(stim_row, CID_CANDIDATES_STIM)
                         ELSE None
        mol_row == GetMoleculeRow(mol_df, cid_from_stim)
    IN  InsertRowAsFacts(ident, "stimuli.csv", stim_row, {stim_col})
            \o InsertRowAsFacts(ident, "molecules.csv", mol_row, {"CID"})
            \o <<UpsertCall(ident)>>

\* the calls of the first sighting (lines 382-384), in order
FirstSightingCalls(ident, stim_df, mol_df, stim_col) ==
    LET stim_row == GetStimulusRow(stim_df, ident.stimulus)
        cid_from_stim == IF stim_row.some
                         THEN PickFirstPresent(stim_row, CID_CANDIDATES_STIM)
                         ELSE None
        mol_row == GetMoleculeRow(mol_df, cid_from_stim)
    IN  <<UpsertCall(ident)>>
            \o InsertRowAsFacts(ident, "stimuli.csv", stim_row, {stim_col})
            \o InsertRowAsFacts(ident, "molecules.csv", mol_row, {"CID"})

\* lines 387-391: every column but the stimulus column of the row
MeasurementCalls(ident, fname, df, cells, stim_col) ==
    LET keep(c) == c # stim_col
        cols == SelectSeq(df.cols, keep)
    IN  [i \in 1..Len(cols) |-> FactCall(ident, fname, cols[i], cells[cols[i]])]

\* the stimulus value of a measurement row (lines 364 and 368)
StimValue(cells, stim_col) == SafeStr(AsTypeStr(cells[stim_col]))

(* ------------------------------------------------------------------ *)
(* The dataset folders the model ingests                              *)
(* ------------------------------------------------------------------ *)

\* most top-level ingestion calls in one behaviour
MaxCalls == 2

\* most direct _insert_fact calls in SpecFact
MaxFacts == 2

\* the folder names a datasets root may hold
SlugNames == {"a", "a:b"}

NoFiles == [n \in {} |-> NoFile]

Dir(stimuli, molecules, files) ==
    [listable |-> TRUE, stimuli |-> stimuli, molecules |-> molecules, files |-> files]

Float32 == MakeFloat(32, -1)

\* stimulus 1 has CID 7; molecules.csv names it; two measurements
DsEthanolA ==
    Dir(Csv(<<"Stimulus", "CID">>,
            <<("Stimulus" :> NpIntCell(1)) @@ ("CID" :> NpIntCell(7))>>, 0),
        Csv(<<"CID", "name">>,
            <<("CID" :> NpIntCell(7)) @@ ("name" :> StrCell("Ethanol"))>>, 0),
        "behavior.csv" :>
            Csv(<<"Stimulus", "Intensity">>,
                <<("Stimulus" :> IntCell(1)) @@ ("Intensity" :> FloatCell(Float32)),
                  ("Stimulus" :> IntCell(1)) @@ ("Intensity" :> FloatCell(FloatInf(1)))>>, 0))

\* stimulus x has CID 7 and a CAS, under other column spellings
DsEthanolB ==
    Dir(Csv(<<" stimulus ", "cid", "CAS", "Name">>,
            <<(" stimulus " :> StrCell("x")) @@ ("cid" :> NpIntCell(7))
                @@ ("CAS" :> StrCell("64-17-5")) @@ ("Name" :> StrCell("EtOH"))>>, 0),
        NoFile,
        "Behavior_1.CSV" :>
            Csv(<<"STIMULUS", "Descriptor">>,
                <<("STIMULUS" :> StrCell("x")) @@ ("Descriptor" :> StrCell(" fruity "))>>, 0))

\* stimulus x has a CAS only; stimulus y is not in stimuli.csv
DsCas ==
    Dir(Csv(<<"Stimulus", "cas", "SMILES">>,
            <<("Stimulus" :> StrCell("x")) @@ ("cas" :> StrCell("64-17-5"))
                @@ ("SMILES" :> StrCell("CCO"))>>, 0),
        NoFile,
        "behavior.csv" :>
            Csv(<<"Stimulus", "Intensity">>,
                <<("Stimulus" :> StrCell("x")) @@ ("Intensity" :> FloatCell(FloatInt(2))),
                  ("Stimulus" :> StrCell("y")) @@ ("Intensity" :> NaN)>>, 0))

\* no stimuli.csv: label "b:c", then a row with a blank stimulus
DsBareBC ==
    Dir(NoFile, NoFile,
        "behavior.csv" :>
            Csv(<<"Stimulus", "Intensity">>,
                <<("Stimulus" :> StrCell(" b:c")) @@ ("Intensity" :> StrCell("inf")),
                  ("Stimulus" :> StrCell("  ")) @@ ("Intensity" :> StrCell("strong"))>>, 0))

\* no stimuli.csv: label "c"
DsBareC ==
    Dir(NoFile, NoFile,
        "behavior.csv" :>
            Csv(<<"Stimulus", "Intensity">>,
                <<("Stimulus" :> StrCell("c")) @@ ("Intensity" :> StrCell("Nan")),
                  ("Stimulus" :> StrCell("c")) @@ ("Intensity" :> StrCell(" strong "))>>, 0))

PairsCols == <<"StimulusA", "StimulusB", "Similarity">>

PairsRow ==
    ("StimulusA" :> StrCell("x")) @@ ("StimulusB" :> StrCell("y"))
        @@ ("Similarity" :> FloatCell(Float32))

\* 4999 + 1 = 5000 rows in behavior*.csv (an unreadable file counts 0)
DsEdge ==
    Dir(NoFile, NoFile,
        ("behavior.csv" :>
            Csv(<<"Stimulus", "Intensity">>,
                <<("Stimulus" :> StrCell("x")) @@ ("Intensity" :> NpIntCell(3))>>,
                MAX_ROWS_PER_DATASET - 2))
        @@ ("Behavior_pairs.csv" :> Csv(PairsCols, <<PairsRow>>, 0))
        @@ ("behavior_bad.csv" :> Unreadable)
        @@ ("notes.csv" :> Csv(<<"Stimulus", "Intensity">>,
                <<("Stimulus" :> StrCell("x")) @@ ("Intensity" :> NpIntCell(9))>>, 5)))

\* 4999 + 2 = 5001 rows in behavior*.csv
DsOver ==
    Dir(NoFile, NoFile,
        ("behavior.csv" :>
            Csv(<<"Stimulus", "Intensity">>,
                <<("Stimulus" :> StrCell("x")) @@ ("Intensity" :> NpIntCell(3))>>,
                MAX_ROWS_PER_DATASET - 2))
        @@ ("Behavior_pairs.csv" :> Csv(PairsCols, <<PairsRow, PairsRow>>, 0)))

\* labels y and z both carry the CAS of DsCas and no CID; y is measured in
\* three rows of two files
DsSynonyms ==
    Dir(Csv(<<"Stimulus", "CAS">>,
            <<("Stimulus" :> StrCell("y")) @@ ("CAS" :> StrCell("64-17-5")),
              ("Stimulus" :> StrCell("z")) @@ ("CAS" :> StrCell("64-17-5"))>>, 0),
        NoFile,
        ("behavior.csv" :>
            Csv(<<"Stimulus", "Descriptor">>,
                <<("Stimulus" :> StrCell("y")) @@ ("Descriptor" :> StrCell("Citrus")),
                  ("Stimulus" :> StrCell("z")) @@ ("Descriptor" :> StrCell("3.2")),
                  ("Stimulus" :> StrCell("y")) @@ ("Descriptor" :> StrCell("citrus "))>>, 0))
        @@ ("behavior_2.csv" :>
            Csv(<<"Stimulus", "Descriptor">>,
                <<("Stimulus" :> StrCell("y")) @@ ("Descriptor" :> StrCell("sweet"))>>, 0)))

\* stimulus w has CID 7 and no name column anywhere; the second
\* measurement row has an empty stimulus field, which read_csv hands over
\* as NaN
DsNoName ==
    Dir(Csv(<<"Stimulus", "CID">>,
            <<("Stimulus" :> StrCell("w")) @@ ("CID" :> NpIntCell(7))>>, 0),
        NoFile,
        "behavior.csv" :>
            Csv(<<"Stimulus", "Intensity">>,
                <<("Stimulus" :> StrCell("w")) @@ ("Intensity" :> FloatCell(FloatInt(1))),
                  ("Stimulus" :> NaN) @@ ("Intensity" :> FloatCell(FloatInt(2)))>>, 0))

\* a folder os.listdir cannot read (PermissionError)
DsLocked == [listable |-> FALSE, stimuli |-> NoFile, molecules |-> NoFile, files |-> NoFiles]

DatasetMenu ==
    {DsEthanolA, DsEthanolB, DsCas, DsBareBC, DsBareC, DsEdge, DsOver, DsLocked,
     DsSynonyms, DsNoName}

NoDirs == [s \in {} |-> DsLocked]

\* the datasets roots: not a directory, or any folders of SlugNames
Roots ==
    {[is_dir |-> FALSE, dirs |-> NoDirs]}
        \cup {[is_dir |-> TRUE, dirs |-> d] :
                d \in UNION {[S -> DatasetMenu] : S \in SUBSET SlugNames}}

(* ------------------------------------------------------------------ *)
(* State                                                              *)
(* ------------------------------------------------------------------ *)

VARIABLES
    fs,      \* the datasets root on disk
    odors,   \* table odors: a set of rows, unified_odor_id is the key
    facts,   \* table odor_facts: the rows in id order
    run,     \* per process: the position of its ingestion call
    hist,    \* the completed top-level calls, in order
    seen,    \* every Identity built so far
    probe,   \* the last _insert_fact call: its value and the table before
    result   \* the value the last read returned, until the caller lets go
             \* of it or ingestion takes a step

vars == <<fs, odors, facts, run, hist, seen, probe, result>>

Procs == {1, 2}

IdleRun ==
    [pc |-> "idle", kind |-> "", arg |-> "", slugs |-> <<>>, ds |-> <<>>,
     slug |-> "", files |-> <<>>, fname |-> "", row |-> 0, cache |-> {},
     pending |-> <<>>, log |-> <<>>, odors0 |-> {}, nfacts0 |-> 0]

NoProbe == [called |-> FALSE, value |-> PyNone, before |-> <<>>]

NoResult == [called |-> FALSE, op |-> "", args |-> <<>>, rows |-> <<>>]

Init ==
    /\ fs \in Roots
    /\ odors = {}
    /\ facts = <<>>
    /\ run = [p \in Procs |-> IdleRun]
    /\ hist = <<>>
    /\ seen = {}
    /\ probe = NoProbe
    /\ result = NoResult

\* calls started so far
Started == Len(hist) + Cardinality({p \in Procs : run[p].pc # "idle"})

\* what a finished ingest_dataset call leaves in the log of its caller: how
\* it ended, and the tables when it began and when it ended
DsEntry(r, outcome) ==
    [slug |-> Head(r.slugs), outcome |-> outcome, log |-> r.log,
     odors0 |-> r.odors0, nfacts0 |-> r.nfacts0,
     odors1 |-> odors, nfacts1 |-> Len(facts)]

\* the record of a completed top-level call
CallEntry(r, ds, raised) ==
    [kind |-> r.kind, arg |-> r.arg, raised |-> raised, ds |-> ds,
     odors |-> odors, nfacts |-> Len(facts)]

(* ------------------------------------------------------------------ *)
(* ingest_all / ingest_dataset                                        *)
(* ------------------------------------------------------------------ *)

\* ingest_all, up to its loop (lines 399-411)
IngestAll(p) ==
    /\ run[p].pc = "idle"
    /\ Started < MaxCalls
    /\ LET r == [IdleRun EXCEPT !.kind = "all"]
       IN  IF ~fs.is_dir \/ DOMAIN fs.dirs = {}
           THEN /\ hist' = Append(hist, CallEntry(r, <<>>, FALSE))
                /\ run' = run
           ELSE /\ run' = [run EXCEPT ![p] =
                              [r EXCEPT !.pc = "next", !.slugs = Sorted(DOMAIN fs.dirs)]]
                /\ hist' = hist
    /\ UNCHANGED <<fs, odors, facts, seen, probe>>
    /\ result' = NoResult

\* a direct call ingest_dataset(conn, datasets_root, slug)
IngestDataset(p, slug) ==
    /\ run[p].pc = "idle"
    /\ Started < MaxCalls
    /\ run' = [run EXCEPT ![p] =
                  [IdleRun EXCEPT !.pc = "next", !.kind = "dataset",
                                  !.arg = slug, !.slugs = <<slug>>]]
    /\ UNCHANGED <<fs, odors, facts, hist, seen, probe>>
    /\ result' = NoResult

\* the loop of ingest_all is over, or the direct call has returned
Return(p) ==
    /\ run[p].pc = "next"
    /\ run[p].slugs = <<>>
    /\ hist' = Append(hist, CallEntry(run[p], run[p].ds, FALSE))
    /\ run' = [run EXCEPT ![p] = IdleRun]
    /\ UNCHANGED <<fs, odors, facts, seen, probe>>
    /\ result' = NoResult

AtDataset(p) ==
    /\ run[p].pc = "next"
    /\ run[p].slugs # <<>>

IsDir(slug) == fs.is_dir /\ slug \in DOMAIN fs.dirs

\* lines 314-317: not a directory
NotADirectory(p) ==
    /\ AtDataset(p)
    /\ ~IsDir(Head(run[p].slugs))
    /\ run' = [run EXCEPT ![p].ds = Append(@, DsEntry(
                   [run[p] EXCEPT !.odors0 = odors, !.nfacts0 = Len(facts)], "not_dir")),
                                 ![p].slugs = Tail(@)]
    /\ UNCHANGED <<fs, odors, facts, hist, seen, probe>>
    /\ result' = NoResult

\* line 299: os.listdir raises; nothing catches it, neither in
\* ingest_dataset nor in ingest_all, so the top-level call ends here
ListdirRaises(p) ==
    /\ AtDataset(p)
    /\ IsDir(Head(run[p].slugs))
    /\ ~fs.dirs[Head(run[p].slugs)].listable
    /\ LET r == [run[p] EXCEPT !.odors0 = odors, !.nfacts0 = Len(facts)]
       IN  hist' = Append(hist, CallEntry(r, Append(r.ds, DsEntry(r, "raised")), TRUE))
    /\ run' = [run EXCEPT ![p] = IdleRun]
    /\ UNCHANGED <<fs, odors, facts, seen, probe>>
    /\ result' = NoResult

\* lines 322-328: the row-count gate skips the dataset
GateSkip(p) ==
    /\ AtDataset(p)
    /\ IsDir(Head(run[p].slugs))
    /\ fs.dirs[Head(run[p].slugs)].listable
    /\ OverGate(CountBehaviorRows(fs.dirs[Head(run[p].slugs)]))
    /\ run' = [run EXCEPT ![p].ds = Append(@, DsEntry(
                   [run[p] EXCEPT !.odors0 = odors, !.nfacts0 = Len(facts)], "skipped")),
                                 ![p].slugs = Tail(@)]
    /\ UNCHANGED <<fs, odors, facts, hist, seen, probe>>
    /\ result' = NoResult

\* lines 330-341: the dataset passes the gate; its files are listed
BeginDataset(p) ==
    /\ AtDataset(p)
    /\ IsDir(Head(run[p].slugs))
    /\ fs.dirs[Head(run[p].slugs)].listable
    /\ ~OverGate(CountBehaviorRows(fs.dirs[Head(run[p].slugs)]))
    /\ run' = [run EXCEPT ![p].pc = "files",
                          ![p].slug = Head(run[p].slugs),
                          ![p].files = BehaviorFiles(fs.dirs[Head(run[p].slugs)]),
                          ![p].fname = "", ![p].row = 0, ![p].cache = {},
                          ![p].pending = <<>>, ![p].log = <<>>,
                          ![p].odors0 = odors, ![p].nfacts0 = Len(facts)]
    /\ UNCHANGED <<fs, odors, facts, hist, seen, probe>>
    /\ result' = NoResult

\* lines 341-366: the next file; one that cannot be read, is empty or has
\* no stimulus column is skipped
NextFile(p) ==
    /\ run[p].pc = "files"
    /\ run[p].files # <<>>
    /\ LET fname == Head(run[p].files)
           f == FileOf(fs.dirs[run[p].slug], fname)
       IN  IF FileUsable(f)
           THEN run' = [run EXCEPT ![p].pc = "rows", ![p].fname = fname,
                                   ![p].row = 1, ![p].files = Tail(@)]
           ELSE run' = [run EXCEPT ![p].files = Tail(@)]
    /\ UNCHANGED <<fs, odors, facts, hist, seen, probe>>
    /\ result' = NoResult

\* lines 393-396: no file is left, ingest_dataset returns
FinishDataset(p) ==
    /\ run[p].pc = "files"
    /\ run[p].files = <<>>
    /\ run' = [run EXCEPT ![p].pc = "next",
                          ![p].ds = Append(@, DsEntry(run[p], "ingested")),
                          ![p].slugs = Tail(@),
                          ![p].slug = "", ![p].fname = "", ![p].row = 0,
                          ![p].cache = {}, ![p].log = <<>>,
                          ![p].odors0 = {}, ![p].nfacts0 = 0]
    /\ UNCHANGED <<fs, odors, facts, hist, seen, probe>>
    /\ result' = NoResult

CurrentFile(p) == FileOf(fs.dirs[run[p].slug], run[p].fname)

\* Cached with an identity_cache that never holds anything
CachedNever(cache, stim_value) == FALSE

\* line 372: stim_value in identity_cache (the cache is keyed by the label)
Cached(cache, stim_value) == \E i \in cache : i.stimulus = stim_value

\* lines 367-381: one measurement row, up to its first write.  A row with
\* a blank stimulus is skipped; a new stimulus value gets its Identity,
\* which is cached.
ProcessRow(p) ==
    /\ run[p].pc = "rows"
    /\ run[p].pending = <<>>
    /\ run[p].row <= Len(CurrentFile(p).rows)
    /\ LET df == CurrentFile(p)
           dir == fs.dirs[run[p].slug]
           stim_col == FindStimulusColumn(df).v
           cells == df.rows[run[p].row]
           stim_value == StimValue(cells, stim_col)
           cached == Cached(run[p].cache, stim_value.v)
           ident == IF cached
                    THEN CHOOSE i \in run[p].cache : i.stimulus = stim_value.v
                    ELSE ResolveIdentity(run[p].slug, LoadStimuli(dir),
                                         LoadMolecules(dir), stim_value.v)
       IN  IF ~stim_value.some
           THEN /\ run' = [run EXCEPT ![p].row = @ + 1]
                /\ seen' = seen
           ELSE /\ run' = [run EXCEPT
                              ![p].row = @ + 1,
                              ![p].cache = @ \cup {ident},
                              ![p].pending =
                                  (IF cached THEN <<>>
                                   ELSE FirstSightingCalls(ident, LoadStimuli(dir),
                                                           LoadMolecules(dir), stim_col))
                                  \o MeasurementCalls(ident, run[p].fname, df, cells, stim_col)]
                /\ seen' = seen \cup {ident}
    /\ UNCHANGED <<fs, odors, facts, hist, probe>>
    /\ result' = NoResult

\* the rows of the file are done (the trailing rows with a blank stimulus
\* are each skipped at line 370)
EndOfFile(p) ==
    /\ run[p].pc = "rows"
    /\ run[p].pending = <<>>
    /\ run[p].row > Len(CurrentFile(p).rows)
    /\ run' = [run EXCEPT ![p].pc = "files", ![p].fname = "", ![p].row = 0]
    /\ UNCHANGED <<fs, odors, facts, hist, seen, probe>>
    /\ result' = NoResult

\* _upsert_odor commits
UpsertOdor(p) ==
    /\ run[p].pc = "rows"
    /\ run[p].pending # <<>>
    /\ Head(run[p].pending).op = "upsert"
    /\ odors' = UpsertOdorRows(odors, Head(run[p].pending).ident)
    /\ run' = [run EXCEPT ![p].pending = Tail(@),
                          ![p].log = Append(@, Head(run[p].pending))]
    /\ UNCHANGED <<fs, facts, hist, seen, probe>>
    /\ result' = NoResult

\* one _insert_fact call: it commits a row or returns without writing
InsertFact(p) ==
    /\ run[p].pc = "rows"
    /\ run[p].pending # <<>>
    /\ Head(run[p].pending).op = "fact"
    /\ LET c == Head(run[p].pending)
       IN  /\ facts' = InsertFactRows(facts, c.ident, run[p].slug, c.file, c.column, c.value)
           /\ probe' = [called |-> TRUE, value |-> c.value, before |-> facts]
    /\ run' = [run EXCEPT ![p].pending = Tail(@),
                          ![p].log = Append(@, Head(run[p].pending))]
    /\ UNCHANGED <<fs, odors, hist, seen>>
    /\ result' = NoResult

Step(p) ==
    \/ IngestAll(p)
    \/ \E slug \in SlugNames : IngestDataset(p, slug)
    \/ Return(p)
    \/ NotADirectory(p)
    \/ ListdirRaises(p)
    \/ GateSkip(p)
    \/ BeginDataset(p)
    \/ NextFile(p)
    \/ FinishDataset(p)
    \/ ProcessRow(p)
    \/ EndOfFile(p)
    \/ UpsertOdor(p)
    \/ InsertFact(p)

\* the intended deployment: one ingestion process
Next == Step(1)

Spec == Init /\ [][Next]_vars

(* ------------------------------------------------------------------ *)
(* _insert_fact on its own                                            *)
(* ------------------------------------------------------------------ *)

\* raw cell values: None, NaN, numbers of each Python type, and text that
\* is blank, numeric, infinite, NaN or plain
RawValues ==
    {PyNone, NaN,
     FloatCell(Float32), FloatCell(FloatInf(1)), FloatCell(FloatInf(-1)),
     IntCell(2), IntCell(-7), NpIntCell(3),
     StrCell(""), StrCell("  "), StrCell(" \t"),
     StrCell("3.2"), StrCell(" 3.20 "), StrCell("-1.5E-2"), StrCell("1_0"),
     StrCell("inf"), StrCell("-Infinity"), StrCell("1e999"),
     StrCell("Nan"), StrCell("+nan"),
     StrCell("strong"), StrCell(" fruity "), StrCell("1.2.3"), StrCell("b:c")}

ProbeIdentity == IdentityFromRows("a", "x", NoRow, NoRow)

InitFact ==
    /\ fs = [is_dir |-> FALSE, dirs |-> NoDirs]
    /\ odors = UpsertOdorRows({}, ProbeIdentity)
    /\ facts = <<>>
    /\ run = [p \in Procs |-> IdleRun]
    /\ hist = <<>>
    /\ seen = {ProbeIdentity}
    /\ probe = NoProbe
    /\ result = NoResult

\* _insert_fact(conn, ident, slug, filename, column, value) for any value
InsertFactDirect(value) ==
    /\ Len(facts) < MaxFacts
    /\ facts' = InsertFactRows(facts, ProbeIdentity, "a", "behavior.csv", "Intensity", value)
    /\ probe' = [called |-> TRUE, value |-> value, before |-> facts]
    /\ UNCHANGED <<fs, odors, run, hist, seen>>
    /\ result' = NoResult

NextFact == \E value \in RawValues : InsertFactDirect(value)

SpecFact == InitFact /\ [][NextFact]_vars

(* ------------------------------------------------------------------ *)
(* Reads: src/query.py and the wide view of the dashboards            *)
(* ------------------------------------------------------------------ *)

RECURSIVE Like(_, _)
\* x LIKE pattern in SQLite: % matches any run of characters, _ any one
\* character, and ASCII letters match case-insensitively
Like(x, pattern) ==
    IF pattern = "" THEN x = ""
    ELSE IF Head(pattern) = "%"
         THEN Like(x, Tail(pattern)) \/ (x # "" /\ Like(Tail(x), pattern))
         ELSE /\ x # ""
              /\ Head(pattern) = "_" \/ LowerChar(Head(pattern)) = LowerChar(Head(x))
              /\ Like(Tail(x), Tail(pattern))

\* COALESCE(col, '')
Coalesce(col) == IF col.some THEN col.v ELSE ""

\* COALESCE(name, stimulus_first, unified_odor_id)
OrderKey(r) ==
    IF r.name.some THEN r.name.v
    ELSE IF r.stimulus_first.some THEN r.stimulus_first.v
    ELSE r.unified_odor_id

\* the rows of S with no smaller ORDER BY key in S
FirstRows(S) == {r \in S : \A s \in S : ~StrLess(OrderKey(s), OrderKey(r))}

RECURSIVE OrderBy(_)
\* ORDER BY COALESCE(...) ASC: every order of S ascending in the key; rows
\* with equal keys come in an order SQL does not fix
OrderBy(S) ==
    IF S = {} THEN {<<>>}
    ELSE UNION {{<<r>> \o q : q \in OrderBy(S \ {r})} : r \in FirstRows(S)}

\* limit: Optional[int]
NoLimit == [some |-> FALSE, n |-> 0]

LimitOf(n) == [some |-> TRUE, n |-> n]

\* LIMIT ?  (a negative LIMIT is no limit)
Limited(q, limit) ==
    IF ~limit.some \/ limit.n < 0 \/ limit.n >= Len(q) THEN q
    ELSE SubSeq(q, 1, limit.n)

\* list_odors: the possible return values
ListOdors(rows, limit) == {Limited(q, limit) : q \in OrderBy(rows)}

\* the WHERE clause of search_odors for q = "%" + query.strip() + "%"
SearchMatches(r, q) ==
    \/ Like(r.unified_odor_id, q)
    \/ Like(Coalesce(r.name), q)
    \/ Like(Coalesce(r.cid), q)
    \/ Like(Coalesce(r.cas), q)
    \/ Like(Coalesce(r.stimulus_first), q)

\* search_odors: the possible return values
SearchOdors(rows, query, limit) ==
    LET q == "%" \o Strip(query) \o "%"
    IN  {Limited(s, limit) : s \in OrderBy({r \in rows : SearchMatches(r, q)})}

\* the WHERE clause of descriptor_search on one odor_facts row; dataset is
\* tested for truth, so None and "" both leave the slug free
DescriptorMatches(f, q_value, dataset) ==
    /\ Like(Lower(f.column), "%descriptor%")
    /\ Like(Coalesce([some |-> f.value_text.some, v |-> Lower(f.value_text.v)]),
            Lower(q_value))
    /\ (dataset.some /\ dataset.v # "") => f.slug = dataset.v

\* descriptor_search: the possible return values
DescriptorSearch(rows, frows, text, dataset, limit) ==
    LET q_value == "%" \o Strip(text) \o "%"
        hit == {frows[k].unified_odor_id :
                   k \in {j \in 1..Len(frows) : DescriptorMatches(frows[j], q_value, dataset)}}
    IN  {Limited(s, limit) : s \in OrderBy({r \in rows : r.unified_odor_id \in hit})}

\* a < b on tuples of strings
RECURSIVE TupleLess(_, _)
TupleLess(a, b) ==
    IF b = <<>> THEN FALSE
    ELSE IF a = <<>> THEN TRUE
    ELSE IF Head(a) = Head(b) THEN TupleLess(Tail(a), Tail(b))
    ELSE StrLess(Head(a), Head(b))

RECURSIVE SortedTuples(_)
\* a set of tuples of strings in ascending order
SortedTuples(S) ==
    IF S = {} THEN <<>>
    ELSE LET m == CHOOSE a \in S : \A b \in S : ~TupleLess(b, a)
         IN  <<m>> \o SortedTuples(S \ {m})

\* line 97: value_text if it is not None, else value_num
FactValue(f) ==
    IF f.value_text.some THEN StrCell(f.value_text.v)
    ELSE IF f.value_num.some THEN FloatCell(f.value_num.f)
    ELSE PyNone

\* how often value v occurs at the positions ks of frows
Occurrences(frows, ks, v) == Cardinality({k \in ks : FactValue(frows[k]) = v})

\* get_odor_facts: the rows of the odor ORDER BY slug, file, column.  The
\* rows of one (slug, file, column) come in an order SQL does not fix; the
\* result lists each such key once, in order, with the bag of its values.
GetOdorFacts(frows, unified_odor_id) ==
    LET mine == {k \in 1..Len(frows) : frows[k].unified_odor_id = unified_odor_id}
        keys == SortedTuples({<<frows[k].slug, frows[k].file, frows[k].column>> : k \in mine})
        at(key) == {k \in mine : <<frows[k].slug, frows[k].file, frows[k].column>> = key}
    IN  [i \in 1..Len(keys) |->
            [slug |-> keys[i][1], file |-> keys[i][2], column |-> keys[i][3],
             vals |-> [v \in {FactValue(frows[k]) : k \in at(keys[i])} |->
                          Occurrences(frows, at(keys[i]), v)]]]

\* list_all_datasets
ListAllDatasets(frows) == Sorted({frows[k].slug : k \in 1..Len(frows)})

\* GetDatasetsForOdor without the WHERE clause
GetDatasetsForOdorAnyOdor(frows, unified_odor_id) == ListAllDatasets(frows)

\* get_datasets_for_odor
GetDatasetsForOdor(frows, unified_odor_id) ==
    Sorted({frows[k].slug :
              k \in {j \in 1..Len(frows) : frows[j].unified_odor_id = unified_odor_id}})

\* number of values in a bag
BagSize(b) ==
    LET RECURSIVE Count(_)
        Count(S) == IF S = {} THEN 0
                    ELSE LET v == CHOOSE x \in S : TRUE IN b[v] + Count(S \ {v})
    IN  Count(DOMAIN b)

RECURSIVE Pow10(_)
Pow10(k) == IF k <= 0 THEN 1 ELSE 10 * Pow10(k - 1)

\* a + b on floats
FloatAdd(a, b) ==
    IF a.cls = "nan" \/ b.cls = "nan" THEN FloatNaN
    ELSE IF a.cls = "inf" /\ b.cls = "inf" THEN (IF a.m = b.m THEN a ELSE FloatNaN)
    ELSE IF a.cls = "inf" THEN a
    ELSE IF b.cls = "inf" THEN b
    ELSE LET e == IF a.e < b.e THEN a.e ELSE b.e
         IN  MakeFloat(a.m * Pow10(a.e - e) + b.m * Pow10(b.e - e), e)

\* sum(float(v) for v in vals), from 0
FloatSum(b) ==
    LET RECURSIVE Sum(_)
        Sum(S) == IF S = {} THEN FloatInt(0)
                  ELSE LET v == CHOOSE x \in S : TRUE
                           RECURSIVE Times(_)
                           Times(k) == IF k = 0 THEN Sum(S \ {v})
                                       ELSE FloatAdd(Times(k - 1), v.f)
                       IN  Times(b[v])
    IN  Sum(DOMAIN b)

RECURSIVE Gcd(_, _)
Gcd(a, b) == IF b = 0 THEN a ELSE Gcd(b, a % b)

\* f / n for n > 0: the quotient (m / d) * 10^e in lowest terms (rounding
\* to a double is not modelled)
FloatDiv(f, n) ==
    IF f.cls # "fin" THEN [cls |-> f.cls, m |-> f.m, d |-> 1, e |-> 0]
    ELSE LET g == Gcd(Abs(f.m), n)
         IN  [cls |-> "fin", m |-> f.m \div g, d |-> n \div g, e |-> f.e]

\* the values that are instances of int or float
NumericVals(b) == [v \in {x \in DOMAIN b : x.k \in {"int", "float"}} |-> b[v]]

RECURSIVE Join(_, _)
\* sep.join(q)
Join(q, sep) ==
    IF q = <<>> THEN ""
    ELSE IF Len(q) = 1 THEN q[1]
    ELSE q[1] \o sep \o Join(Tail(q), sep)

NumAgg(q) == [k |-> "num", q |-> q, s |-> ""]

TextAgg(s) == [k |-> "text", q |-> FloatDiv(FloatInt(0), 1), s |-> s]

\* Aggregate taking the mean as soon as one value is numeric
AggregateAnyNumeric(vals) ==
    LET numeric_vals == NumericVals(vals)
    IN  IF BagSize(numeric_vals) > 0
        THEN NumAgg(FloatDiv(FloatSum(numeric_vals), BagSize(numeric_vals)))
        ELSE TextAgg(Join(Sorted({PyStr(v) : v \in {x \in DOMAIN vals : x.k # "None"}}), "; "))

\* the aggregate of one group (streamlit_app.py lines 327-334,
\* app.py lines 316-322)
Aggregate(vals) ==
    LET numeric_vals == NumericVals(vals)
    IN  IF BagSize(numeric_vals) > 0 /\ BagSize(numeric_vals) = BagSize(vals)
        THEN NumAgg(FloatDiv(FloatSum(numeric_vals), BagSize(numeric_vals)))
        ELSE TextAgg(Join(Sorted({PyStr(v) : v \in {x \in DOMAIN vals : x.k # "None"}}), "; "))

\* rows_agg of details_section_multi for the selected odors: one row per
\* (unified_odor_id, slug, file, column), in the order of groupby
Pivot(frows, ids) ==
    LET groups == UNION {{[unified_odor_id |-> id, slug |-> g.slug, file |-> g.file,
                           column |-> g.column, vals |-> g.vals] :
                             g \in Range(GetOdorFacts(frows, id))} : id \in ids}
        keyOf(g) == <<g.unified_odor_id, g.slug, g.file, g.column>>
        keys == SortedTuples({keyOf(g) : g \in groups})
    IN  [i \in 1..Len(keys) |->
            LET g == CHOOSE x \in groups : keyOf(x) = keys[i]
            IN  [unified_odor_id |-> g.unified_odor_id, slug |-> g.slug,
                 file |-> g.file, column |-> g.column, value |-> Aggregate(g.vals)]]

\* one label, two counts in a descriptor-like column, no stimuli.csv
DsCounts ==
    Dir(NoFile, NoFile,
        "behavior.csv" :>
            Csv(<<"Stimulus", "N_Descriptors">>,
                <<("Stimulus" :> StrCell("q")) @@ ("N_Descriptors" :> NpIntCell(3)),
                  ("Stimulus" :> StrCell("q")) @@ ("N_Descriptors" :> NpIntCell(4))>>, 0))

\* the datasets roots that are ingested while reads are made
RootsQuery ==
    {[is_dir |-> FALSE, dirs |-> NoDirs],
     [is_dir |-> TRUE, dirs |-> ("a" :> DsEthanolA) @@ ("a:b" :> DsEthanolB)],
     [is_dir |-> TRUE, dirs |-> ("a" :> DsSynonyms) @@ ("a:b" :> DsCounts)],
     [is_dir |-> TRUE, dirs |-> ("a" :> DsCas) @@ ("a:b" :> DsCas)],
     [is_dir |-> TRUE, dirs |-> ("a" :> DsOver) @@ ("a:b" :> DsLocked)]}

\* the arguments of the reads
SearchTexts == {"", " 7 ", "ETH", "c_d", "%", "zz"}

DescriptorTexts == {" ", "%", "CITRUS ", "3", "fruit", "zz"}

DatasetArgs == {None, Some("a:b")}

Limits == {NoLimit, LimitOf(1)}

OdorIds == {"CID:7", "CAS:64-17-5", "OID:a:b:q", "nope"}

Selections == {{"CID:7"}, {"CAS:64-17-5", "OID:a:b:q"}, {"nope"}}

NoArgs == [text |-> "", dataset |-> None, limit |-> NoLimit, id |-> "", ids |-> {}]

Returned(op, args, rows) == [called |-> TRUE, op |-> op, args |-> args, rows |-> rows]

\* list_odors(conn, limit)
ReadListOdors(limit) ==
    /\ ~result.called
    /\ \E rows \in ListOdors(odors, limit) :
          result' = Returned("list_odors", [NoArgs EXCEPT !.limit = limit], rows)
    /\ UNCHANGED <<fs, odors, facts, run, hist, seen, probe>>

\* search_odors(conn, query, limit)
ReadSearchOdors(query, limit) ==
    /\ ~result.called
    /\ \E rows \in SearchOdors(odors, query, limit) :
          result' = Returned("search_odors",
                             [NoArgs EXCEPT !.text = query, !.limit = limit], rows)
    /\ UNCHANGED <<fs, odors, facts, run, hist, seen, probe>>

\* descriptor_search(conn, text, dataset, limit)
ReadDescriptorSearch(text, dataset, limit) ==
    /\ ~result.called
    /\ \E rows \in DescriptorSearch(odors, facts, text, dataset, limit) :
          result' = Returned("descriptor_search",
                             [NoArgs EXCEPT !.text = text, !.dataset = dataset,
                                            !.limit = limit], rows)
    /\ UNCHANGED <<fs, odors, facts, run, hist, seen, probe>>

\* list(get_odor_facts(conn, unified_odor_id))
ReadOdorFacts(id) ==
    /\ ~result.called
    /\ result' = Returned("get_odor_facts", [NoArgs EXCEPT !.id = id],
                          GetOdorFacts(facts, id))
    /\ UNCHANGED <<fs, odors, facts, run, hist, seen, probe>>

\* get_datasets_for_odor(conn, unified_odor_id)
ReadDatasetsForOdor(id) ==
    /\ ~result.called
    /\ result' = Returned("get_datasets_for_odor", [NoArgs EXCEPT !.id = id],
                          GetDatasetsForOdor(facts, id))
    /\ UNCHANGED <<fs, odors, facts, run, hist, seen, probe>>

\* list_all_datasets(conn)
ReadAllDatasets ==
    /\ ~result.called
    /\ result' = Returned("list_all_datasets", NoArgs, ListAllDatasets(facts))
    /\ UNCHANGED <<fs, odors, facts, run, hist, seen, probe>>

\* the wide view over the selected odors
ReadPivot(ids) ==
    /\ ~result.called
    /\ result' = Returned("pivot", [NoArgs EXCEPT !.ids = ids], Pivot(facts, ids))
    /\ UNCHANGED <<fs, odors, facts, run, hist, seen, probe>>

\* the caller lets go of the value the last read returned
Discard ==
    /\ result.called
    /\ result' = NoResult
    /\ UNCHANGED <<fs, odors, facts, run, hist, seen, probe>>

InitQuery ==
    /\ fs \in RootsQuery
    /\ odors = {}
    /\ facts = <<>>
    /\ run = [p \in Procs |-> IdleRun]
    /\ hist = <<>>
    /\ seen = {}
    /\ probe = NoProbe
    /\ result = NoResult

\* one ingestion process, and any number of reads between any two of its
\* steps
NextQuery ==
    \/ Step(1)
    \/ \E limit \in Limits : ReadListOdors(limit)
    \/ \E query \in SearchTexts, limit \in Limits : ReadSearchOdors(query, limit)
    \/ \E text \in DescriptorTexts, dataset \in DatasetArgs, limit \in Limits :
          ReadDescriptorSearch(text, dataset, limit)
    \/ \E id \in OdorIds : ReadOdorFacts(id)
    \/ \E id \in OdorIds : ReadDatasetsForOdor(id)
    \/ ReadAllDatasets
    \/ \E ids \in Selections : ReadPivot(ids)
    \/ Discard

SpecQuery == InitQuery /\ [][NextQuery]_vars

(* ------------------------------------------------------------------ *)
(* Identity resolution on its own: _identity_from_rows and the lookup *)
(* of lines 375-380                                                   *)
(* ------------------------------------------------------------------ *)

\* how a row fills the two columns it may have for one field: no column;
\* the earlier candidate blank or empty and the later one filled; both
\* filled
FieldPatterns == {"none", "blank_then", "nan_then", "both"}

NoCells == [c \in {} |-> NaN]

\* the later candidate comes first in the row
PatCols(first, second, pat) == IF pat = "none" THEN <<>> ELSE <<second, first>>

PatCells(first, second, pat, v) ==
    CASE pat = "none"       -> NoCells
      [] pat = "blank_then" -> (first :> StrCell("  ")) @@ (second :> StrCell(v \o "2"))
      [] pat = "nan_then"   -> (first :> NaN) @@ (second :> StrCell(v \o "2"))
      [] pat = "both"       -> (first :> StrCell(" " \o v \o "1 ")) @@ (second :> StrCell(v \o "2"))

\* a row with CAS, name and SMILES columns; tag tells the rows of the two
\* tables apart
RowOf(tag, pc, pn, ps) ==
    Row(PatCols("CAS", "cas_number", pc) \o PatCols("Name", "Odorant", pn)
            \o PatCols("IsomericSMILES", "CanonicalSMILES", ps),
        PatCells("CAS", "cas_number", pc, tag \o "c")
            @@ PatCells("Name", "Odorant", pn, tag \o "n")
            @@ PatCells("IsomericSMILES", "CanonicalSMILES", ps, tag \o "s"))

\* Optional[pd.Series]: no row, or a row of each combination
RowMenu(tag) ==
    {NoRow} \cup {RowOf(tag, pc, pn, ps) : pc, pn, ps \in FieldPatterns}

\* stimuli.csv with the CID under two spellings: x has it in the later
\* candidate only, y has none, z has both (the column CID is a float
\* column, having empty fields)
StimuliTwoCids ==
    Csv(<<"Stimulus", "cid", "CID", "Name">>,
        <<("Stimulus" :> StrCell("x")) @@ ("cid" :> StrCell("7")) @@ ("CID" :> NaN)
            @@ ("Name" :> NaN),
          ("Stimulus" :> StrCell("y")) @@ ("cid" :> StrCell(" ")) @@ ("CID" :> NaN)
            @@ ("Name" :> StrCell("why")),
          ("Stimulus" :> StrCell("z")) @@ ("cid" :> StrCell("9"))
            @@ ("CID" :> FloatCell(FloatInt(8))) @@ ("Name" :> NaN)>>, 0)

\* stimuli.csv with an integer CID column
StimuliOneCid ==
    Csv(<<"Stimulus", "CID">>,
        <<("Stimulus" :> StrCell("x")) @@ ("CID" :> NpIntCell(8)),
          ("Stimulus" :> StrCell("w")) @@ ("CID" :> NpIntCell(5))>>, 0)

MoleculesTwo ==
    Csv(<<"CID", "name", "CAS">>,
        <<("CID" :> NpIntCell(7)) @@ ("name" :> StrCell("Ethanol"))
            @@ ("CAS" :> StrCell("64-17-5")),
          ("CID" :> NpIntCell(8)) @@ ("name" :> StrCell("Octanal")) @@ ("CAS" :> NaN)>>, 0)

\* the stimulus and molecule tables a label is resolved against
ResolveDirs ==
    {Dir(s, m, NoFiles) : s \in {NoFile, StimuliTwoCids, StimuliOneCid},
                          m \in {NoFile, MoleculesTwo}}

ResolveLabels == {"x", "y", "z", "w", "q"}

\* the inputs of one resolution: two rows for _identity_from_rows, or the
\* tables of a dataset and a label for the lookup of lines 375-380
ResolveInputs ==
    {[called |-> FALSE, kind |-> "rows", stim_row |-> s, mol_row |-> m,
      dir |-> DsLocked, label |-> "x"] : s \in RowMenu("s"), m \in RowMenu("m")}
    \cup {[called |-> FALSE, kind |-> "tables", stim_row |-> NoRow, mol_row |-> NoRow,
           dir |-> d, label |-> l] : d \in ResolveDirs, l \in ResolveLabels}

InitResolve ==
    /\ fs = [is_dir |-> FALSE, dirs |-> NoDirs]
    /\ odors = {}
    /\ facts = <<>>
    /\ run = [p \in Procs |-> IdleRun]
    /\ hist = <<>>
    /\ seen = {}
    /\ probe \in ResolveInputs
    /\ result = NoResult

\* _identity_from_rows on the two rows
ResolveFields ==
    /\ ~probe.called
    /\ probe.kind = "rows"
    /\ seen' = {IdentityFromRows("a", probe.label, probe.stim_row, probe.mol_row)}
    /\ probe' = [probe EXCEPT !.called = TRUE]
    /\ UNCHANGED <<fs, odors, facts, run, hist, result>>

\* lines 375-384 for a label seen for the first time: the identity, and
\* the calls made for it (kept in hist)
ResolveLabel ==
    /\ ~probe.called
    /\ probe.kind = "tables"
    /\ LET stim_df == LoadStimuli(probe.dir)
           mol_df == LoadMolecules(probe.dir)
           ident == ResolveIdentity("a", stim_df, mol_df, probe.label)
       IN  /\ seen' = {ident}
           /\ hist' = FirstSightingCalls(ident, stim_df, mol_df, "Stimulus")
    /\ probe' = [probe EXCEPT !.called = TRUE]
    /\ UNCHANGED <<fs, odors, facts, run, result>>

NextResolve == ResolveFields \/ ResolveLabel

SpecResolve == InitResolve /\ [][NextResolve]_vars

(* ------------------------------------------------------------------ *)
(* Two ingestion processes on one store                               *)
(* ------------------------------------------------------------------ *)

\* labels y and z carry one CAS; only the row of z has a SMILES
DsFill ==
    Dir(Csv(<<"Stimulus", "CAS", "SMILES">>,
            <<("Stimulus" :> StrCell("y")) @@ ("CAS" :> StrCell("64-17-5"))
                @@ ("SMILES" :> NaN),
              ("Stimulus" :> StrCell("z")) @@ ("CAS" :> StrCell("64-17-5"))
                @@ ("SMILES" :> StrCell("CCO"))>>, 0),
        NoFile,
        "behavior.csv" :>
            Csv(<<"Stimulus", "Intensity">>,
                <<("Stimulus" :> StrCell("y")) @@ ("Intensity" :> NpIntCell(3)),
                  ("Stimulus" :> StrCell("z")) @@ ("Intensity" :> NpIntCell(4))>>, 0))

\* the datasets roots two processes ingest at once
RootsConc ==
    {[is_dir |-> FALSE, dirs |-> NoDirs],
     [is_dir |-> TRUE, dirs |-> ("a" :> DsFill)],
     [is_dir |-> TRUE, dirs |-> ("a" :> DsOver) @@ ("a:b" :> DsLocked)]}

InitConc ==
    /\ fs \in RootsConc
    /\ odors = {}
    /\ facts = <<>>
    /\ run = [p \in Procs |-> IdleRun]
    /\ hist = <<>>
    /\ seen = {}
    /\ probe = NoProbe
    /\ result = NoResult

\* the scenario of two runs: each process makes one top-level call.  (A
\* further call starts in a state where both have returned, which this
\* specification reaches already.)
TwoRuns == Cardinality(Procs)

\* each step is one committed statement, or one step between statements,
\* of either process
NextConc ==
    /\ Step(1) \/ Step(2)
    /\ Started' <= TwoRuns

SpecConc == InitConc /\ [][NextConc]_vars

(* ------------------------------------------------------------------ *)
(* Properties                                                         *)
(* ------------------------------------------------------------------ *)

\* the identities whose _upsert_odor call has committed
Upserted ==
    {i \in seen :
        \A p \in Procs : \A k \in 1..Len(run[p].pending) :
            run[p].pending[k].op = "upsert" => run[p].pending[k].ident # i}

FactsOf(uid, slug) ==
    {k \in 1..Len(facts) : facts[k].unified_odor_id = uid /\ facts[k].slug = slug}

\* C1: an identity with a CID has the unified id "CID:" + cid whatever its
\* slug and label, every odors row carrying a cid is the row keyed
\* "CID:" + cid, and all upserted identities with one CID share exactly one
\* odors row.
C1_CidKeysOneRow ==
    /\ \A i \in seen : i.cid.some => i.unified_odor_id = "CID:" \o i.cid.v
    /\ \A r \in odors : r.cid.some => r.unified_odor_id = "CID:" \o r.cid.v
    /\ \A i \in Upserted :
          i.cid.some => Cardinality({r \in odors : r.cid = i.cid}) = 1
    /\ \A r1, r2 \in odors : r1.unified_odor_id = r2.unified_odor_id => r1 = r2

\* two datasets, with different labels for CID 7, have both been ingested
C1_TwoDatasetsOneCid ==
    \E i1, i2 \in Upserted :
        /\ i1.cid = Some("7") /\ i2.cid = Some("7")
        /\ i1.slug # i2.slug /\ i1.stimulus # i2.stimulus
        /\ FactsOf("CID:7", i1.slug) # {} /\ FactsOf("CID:7", i2.slug) # {}

\* C2: an identity with neither CID nor CAS has the unified id
\* "OID:" + slug + ":" + label, and two such identities of distinct slugs
\* never have the same unified id.
C2_OidNeverShared ==
    \A i1, i2 \in seen :
        (~i1.cid.some /\ ~i1.cas.some /\ ~i2.cid.some /\ ~i2.cas.some)
            => /\ i1.unified_odor_id = "OID:" \o i1.slug \o ":" \o i1.stimulus
               /\ i1.slug # i2.slug => i1.unified_odor_id # i2.unified_odor_id

KeyFields == {"name", "cid", "cas", "smiles"}

\* C3: in every step, each odors row is still there afterwards and each of
\* its fields name, cid, cas, smiles that was non-null has kept its value.
C3_FillOnlyIfNull ==
    [][\A r \in odors : \E r2 \in odors' :
            /\ r2.unified_odor_id = r.unified_odor_id
            /\ \A col \in KeyFields : r[col].some => r2[col] = r[col]]_vars

\* the row of CID 7 was created by dataset a without a CAS and with the
\* name of molecules.csv; dataset a:b then filled the CAS and left the name
C3_FilledLater ==
    \E r \in odors :
        /\ r.unified_odor_id = "CID:7"
        /\ r.slug_first = Some("a")
        /\ r.name = Some("Ethanol")
        /\ r.cas = Some("64-17-5")
        /\ \E i \in Upserted : i.slug = "a:b" /\ i.name = Some("EtOH") /\ i.cid = Some("7")

\* C4: in every state, also in the middle of a run, every odor_facts row
\* has its unified id in odors.
C4_FactHasOdor ==
    \A k \in 1..Len(facts) :
        \E r \in odors : r.unified_odor_id = facts[k].unified_odor_id

\* in the middle of a run: a fact is written and more calls are pending
C4_MidRun ==
    \E p \in Procs :
        /\ run[p].pending # <<>>
        /\ Len(facts) > run[p].nfacts0
        /\ facts[Len(facts)].file = "stimuli.csv"

\* C5: every odor_facts row has exactly one of value_text and value_num
\* non-null.
C5_ExactlyOneValue ==
    \A k \in 1..Len(facts) : facts[k].value_text.some # facts[k].value_num.some

\* the table holds a text row and a numeric row
C5_BothKinds ==
    /\ \E k \in 1..Len(facts) : facts[k].value_text.some
    /\ \E k \in 1..Len(facts) : facts[k].value_num.some
    /\ \E k \in 1..Len(facts) : facts[k].value_text = Some("Nan")

\* the row the last _insert_fact call appended, when it appended one
Wrote == Len(facts) = Len(probe.before) + 1 /\ SubSeq(facts, 1, Len(probe.before)) = probe.before

LastFact == facts[Len(facts)]

\* None, NaN, empty or whitespace-only
IsBlank(value) ==
    \/ value.k = "None"
    \/ IsFloatNaN(value)
    \/ value.k = "str" /\ Strip(value.s) = ""

\* float(value): a number cell is its own value, text is parsed
AsNumber(value) ==
    IF value.k = "str" THEN PyFloat(value.s) ELSE [ok |-> TRUE, f |-> value.f]

ParsesFinite(value) == AsNumber(value).ok /\ AsNumber(value).f.cls = "fin"

ParsesNotNaN(value) == AsNumber(value).ok /\ AsNumber(value).f.cls # "nan"

\* C6 as stated: after an _insert_fact call, a blank value has written no
\* row; any other value has written one row, whose value_num is set if and
\* only if the value parses as a finite number, and whose value_text is
\* otherwise the trimmed text.
C6_NumericIffFinite ==
    probe.called =>
        IF IsBlank(probe.value) THEN facts = probe.before
        ELSE /\ Wrote
             /\ LastFact.value_num.some <=> ParsesFinite(probe.value)
             /\ ~ParsesFinite(probe.value)
                    => LastFact.value_text = Some(Strip(PyStr(probe.value)))

\* C6 amended: the same with "parses as a number other than NaN" in place
\* of "parses as a finite number": an infinity is stored in value_num, and
\* value_num then holds the parsed number.
C6_NumericIffNotNaN ==
    probe.called =>
        IF IsBlank(probe.value) THEN facts = probe.before
        ELSE /\ Wrote
             /\ LastFact.value_num.some <=> ParsesNotNaN(probe.value)
             /\ ParsesNotNaN(probe.value)
                    => LastFact.value_num = SomeNum(AsNumber(probe.value).f)
             /\ ~ParsesNotNaN(probe.value)
                    => LastFact.value_text = Some(Strip(PyStr(probe.value)))

\* the text "inf" was inserted and is stored as a number, after a padded
\* text value was stored trimmed
C6_InfinityStored ==
    /\ probe.called /\ probe.value = StrCell("inf")
    /\ Wrote /\ LastFact.value_num = SomeNum(FloatInf(1))
    /\ Len(facts) = 2 /\ facts[1].value_text = Some("fruity")

\* C7: every completed ingest_all call has raised nothing and has called
\* ingest_dataset on every folder of the root, in sorted order.
C7_EveryDatasetVisited ==
    \A k \in 1..Len(hist) :
        hist[k].kind = "all" =>
            /\ ~hist[k].raised
            /\ (fs.is_dir /\ DOMAIN fs.dirs # {}) =>
                  [i \in 1..Len(hist[k].ds) |-> hist[k].ds[i].slug] = Sorted(DOMAIN fs.dirs)

\* every ingest_dataset call finished or in progress of a completed call
\* or of a running one
DatasetCalls ==
    UNION {Range(hist[k].ds) : k \in 1..Len(hist)}
        \cup UNION {Range(run[p].ds) : p \in Procs}

RECURSIVE C8_SumLens(_, _)
C8_SumLens(dir, names) ==
    IF names = <<>> THEN 0
    ELSE Len(FileOf(dir, Head(names)).rows) + FileOf(dir, Head(names)).blank
            + C8_SumLens(dir, Tail(names))

\* rows over the readable files named behavior*.csv, case-insensitively
C8_TotalRows(dir) ==
    C8_SumLens(dir,
        Sorted({n \in ListDir(dir) :
                  /\ Len(n) >= 12
                  /\ Lower(SubSeq(n, 1, 8)) = "behavior"
                  /\ Lower(SubSeq(n, Len(n) - 3, Len(n))) = ".csv"
                  /\ FileOf(dir, n).readable}))

\* C8: an ingest_dataset call on a listable folder is skipped exactly when
\* its behavior*.csv files hold more than 5000 rows in total, and a skipped
\* call leaves odors and odor_facts as they were.
C8_GateAt5000 ==
    \A e \in DatasetCalls :
        (IsDir(e.slug) /\ fs.dirs[e.slug].listable) =>
            /\ (e.outcome = "skipped") <=> (C8_TotalRows(fs.dirs[e.slug]) > 5000)
            /\ e.outcome = "skipped" => e.odors1 = e.odors0 /\ e.nfacts1 = e.nfacts0

\* one ingest_all has ingested a dataset of exactly 5000 rows, writing a
\* fact, and skipped one of 5001 rows
C8_EdgeAndOver ==
    \E k \in 1..Len(hist) : \E e1, e2 \in Range(hist[k].ds) :
        /\ IsDir(e1.slug) /\ IsDir(e2.slug)
        /\ C8_TotalRows(fs.dirs[e1.slug]) = 5000
        /\ e1.outcome = "ingested" /\ e1.nfacts1 > e1.nfacts0
        /\ C8_TotalRows(fs.dirs[e2.slug]) = 5001
        /\ e2.outcome = "skipped"

\* C9: slug_first and stimulus_first of an odors row are those of an
\* identity of that unified id, and no step changes them.
C9_FirstFieldsFrozen ==
    /\ [](\A r \in odors : \E i \in seen :
            /\ i.unified_odor_id = r.unified_odor_id
            /\ r.slug_first = Some(i.slug)
            /\ r.stimulus_first = Some(i.stimulus))
    /\ [][\A r \in odors : \E r2 \in odors' :
            /\ r2.unified_odor_id = r.unified_odor_id
            /\ r2.slug_first = r.slug_first
            /\ r2.stimulus_first = r.stimulus_first]_vars

\* a later dataset with another label has upserted the identity of a row
\* that still names the first dataset and label
C9_LaterUpsertOtherLabel ==
    \E r \in odors : \E i \in Upserted :
        /\ i.unified_odor_id = r.unified_odor_id
        /\ r.slug_first.some /\ StrLess(r.slug_first.v, i.slug)
        /\ r.stimulus_first # Some(i.stimulus)
        /\ \E h \in 1..Len(hist) : \E e \in Range(hist[h].ds) :
              e.slug = i.slug /\ e.outcome = "ingested"

FactsBefore(k) == IF k = 1 THEN 0 ELSE hist[k - 1].nfacts

SameCall(j, k) == hist[j].kind = hist[k].kind /\ hist[j].arg = hist[k].arg

\* C10: when a call repeats an earlier call, it leaves odors as it found
\* it (as the first of two successive calls left it), and it appends to
\* odor_facts a copy, in order, of the rows the earlier call appended.
C10_ReingestDoublesFacts ==
    \A j, k \in 1..Len(hist) :
        (j < k /\ SameCall(j, k)) =>
            /\ hist[k].odors = hist[k - 1].odors
            /\ SubSeq(facts, FactsBefore(k) + 1, hist[k].nfacts)
                   = SubSeq(facts, FactsBefore(j) + 1, hist[j].nfacts)

\* a dataset was ingested twice: rows in odors, and facts written twice
C10_IngestedTwice ==
    /\ Len(hist) >= 2
    /\ SameCall(1, 2)
    /\ hist[1].kind = "dataset"
    /\ hist[1].odors # {}
    /\ hist[1].nfacts >= 2
    /\ hist[2].nfacts = 2 * hist[1].nfacts

\* the write calls, in order, of every ingest_dataset run, finished or not
RunLogs ==
    {e.log : e \in DatasetCalls} \cup {run[p].log : p \in Procs}

AuxFiles == {"stimuli.csv", "molecules.csv"}

\* the call wrote a fact tagged stimuli.csv or molecules.csv
WroteAuxFact(c) ==
    c.op = "fact" /\ c.file \in AuxFiles /\ ClassifyValue(c.value).write

\* C12: within one run, the facts tagged stimuli.csv and molecules.csv of a
\* unified identity are all written at one sighting (one label), and no
\* column of those files is written twice under one unified identity.
C12_AuxFactsOncePerIdentity ==
    \A log \in RunLogs : \A j, k \in 1..Len(log) :
        (/\ j < k
         /\ WroteAuxFact(log[j]) /\ WroteAuxFact(log[k])
         /\ log[j].ident.unified_odor_id = log[k].ident.unified_odor_id)
            => /\ log[j].ident.stimulus = log[k].ident.stimulus
               /\ ~(log[j].file = log[k].file /\ log[j].column = log[k].column)

\* the trimmed stimulus labels of the rows of the files a run processes
LabelsOfFile(f) ==
    {Strip(PyStr(f.rows[i][c])) :
        i \in 1..Len(f.rows),
        c \in {d \in Range(f.cols) : Lower(Strip(d)) = "stimulus"}}

LabelsOf(dir) ==
    UNION {LabelsOfFile(FileOf(dir, n)) :
             n \in {m \in ListDir(dir) : IsBehaviorCsv(m) /\ FileOf(dir, m).readable}}
        \ {""}

\* LabelsOf, tabulated over the dataset folders of the model
LabelsIn == [dir \in DatasetMenu |-> LabelsOf(dir)]

UpsertsOf(log, label) ==
    {j \in 1..Len(log) : log[j].op = "upsert" /\ log[j].ident.stimulus = label}

\* C13: within one run, no label is upserted twice and all calls made for
\* one label carry one Identity (one unified id); a run that has finished
\* has upserted every label of its measurement rows exactly once.
C13_OncePerLabel ==
    /\ \A log \in RunLogs :
          \A label \in {log[j].ident.stimulus : j \in 1..Len(log)} :
              /\ Cardinality({log[j].ident : j \in {k \in 1..Len(log) :
                                  log[k].ident.stimulus = label}}) = 1
              /\ Cardinality(UpsertsOf(log, label)) <= 1
    /\ \A e \in DatasetCalls :
          e.outcome = "ingested" =>
              \A label \in LabelsIn[fs.dirs[e.slug]] :
                  Cardinality(UpsertsOf(e.log, label)) = 1

\* a finished run measured one label in two rows of one file and in a
\* second file, after upserting it once
C13_LabelInManyRows ==
    \E e \in DatasetCalls : \E i, j, k \in 1..Len(e.log) :
        /\ e.outcome = "ingested"
        /\ i < j /\ j < k
        /\ e.log[i].value = StrCell("Citrus") /\ e.log[i].file = "behavior.csv"
        /\ e.log[j].value = StrCell("citrus ") /\ e.log[j].file = "behavior.csv"
        /\ e.log[k].file = "behavior_2.csv"
        /\ e.log[i].ident.stimulus = "y"
        /\ e.log[j].ident.stimulus = "y"
        /\ e.log[k].ident.stimulus = "y"
        /\ Cardinality(UpsertsOf(e.log, "y")) = 1

\* C19: an identity with a CAS and no CID has the unified id "CAS:" + cas,
\* whatever its slug and label; one with a CID is keyed by the CID even
\* when it has a CAS, and only one with neither is keyed "OID:".
C19_CasKey ==
    \A i \in seen :
        /\ (~i.cid.some /\ i.cas.some) => i.unified_odor_id = "CAS:" \o i.cas.v
        /\ i.cid.some => i.unified_odor_id = "CID:" \o i.cid.v
        /\ (~i.cid.some /\ ~i.cas.some) <=> StartsWith(i.unified_odor_id, "OID:")

\* two datasets with different labels for one CAS have been ingested into
\* one odors row
C19_TwoLabelsOneCas ==
    \E i1, i2 \in Upserted :
        /\ ~i1.cid.some /\ ~i2.cid.some
        /\ i1.cas = Some("64-17-5") /\ i2.cas = Some("64-17-5")
        /\ i1.slug # i2.slug /\ i1.stimulus # i2.stimulus
        /\ Cardinality({r \in odors : r.cas = Some("64-17-5")}) = 1
        /\ \E r \in odors : r.unified_odor_id = "CAS:64-17-5"

\* the file has a column named "stimulus", case-insensitively, once trimmed
HasStimulusColumn(f) == \E c \in Range(f.cols) : Lower(Strip(c)) = "stimulus"

\* the measurement files of a folder: behavior*.csv, case-insensitively
MeasurementFiles(dir) == {n \in ListDir(dir) : IsBehaviorCsv(n)}

\* the files of a folder that ingest_dataset may read rows from
WithStimulusColumn(dir) ==
    {n \in MeasurementFiles(dir) : HasStimulusColumn(FileOf(dir, n))}

\* those of them that hold a labelled row with a further column
WithMeasurements(dir) ==
    {n \in WithStimulusColumn(dir) :
        /\ FileOf(dir, n).readable
        /\ Len(FileOf(dir, n).cols) > 1
        /\ LabelsOfFile(FileOf(dir, n)) \ {""} # {}}

\* both, tabulated over the dataset folders of the model
StimulusFilesIn ==
    [dir \in DatasetMenu |->
        [any |-> WithStimulusColumn(dir), measured |-> WithMeasurements(dir)]]

\* C20: every fact not tagged stimuli.csv/molecules.csv comes from a
\* measurement file that has a stimulus column, every identity has its
\* label in such a file, and a finished run has made its calls for every
\* readable measurement file that has a stimulus column, a labelled row and
\* a further column.
C20_NoStimulusFileSkipped ==
    /\ \A k \in 1..Len(facts) :
          facts[k].file \in AuxFiles \cup StimulusFilesIn[fs.dirs[facts[k].slug]].any
    /\ \A i \in seen : i.stimulus \in LabelsIn[fs.dirs[i.slug]]
    /\ \A e \in DatasetCalls :
          e.outcome = "ingested" =>
              \A n \in StimulusFilesIn[fs.dirs[e.slug]].measured :
                  \E j \in 1..Len(e.log) : e.log[j].file = n

\* a finished run skipped a pairwise file that has rows, and wrote the
\* facts of the file that sorts after it
C20_PairsFileSkipped ==
    \E e \in {d \in DatasetCalls : d.outcome = "ingested"} :
      \E n \in MeasurementFiles(fs.dirs[e.slug]) :
        /\ FileOf(fs.dirs[e.slug], n).readable
        /\ Len(FileOf(fs.dirs[e.slug], n).rows) > 0
        /\ ~HasStimulusColumn(FileOf(fs.dirs[e.slug], n))
        /\ StrLess(n, "behavior.csv")
        /\ \E k \in (e.nfacts0 + 1)..e.nfacts1 :
              facts[k].file = "behavior.csv" /\ facts[k].slug = e.slug

\* C11: every step, of ingestion or of a read, leaves each row of
\* odor_facts in its place with its column values; rows are only appended.
C11_FactsAppendOnly ==
    [][/\ Len(facts') >= Len(facts)
       /\ SubSeq(facts', 1, Len(facts)) = facts]_vars

\* a read is made in the middle of a second ingestion of a dataset, when
\* the table holds a row and its later copy
C11_ReadAmongCopies ==
    /\ result.called
    /\ run[1].pending # <<>>
    /\ Len(hist) > 0
    /\ \E j, k \in 1..Len(facts) : j < k /\ facts[j] = facts[k]

\* sub occurs in s
Contains(s, sub) ==
    \E i \in 0..(Len(s) - Len(sub)) : SubSeq(s, i + 1, i + Len(sub)) = sub

\* sub occurs in s, case-insensitively
ContainsNoCase(s, sub) == Contains(Lower(s), Lower(sub))

\* C14: every identity descriptor_search returns has a fact whose column
\* name contains "descriptor", case-insensitively, and whose text value is
\* not null and contains the (trimmed) text, case-insensitively, in the
\* dataset asked for when one is given.
C14_DescriptorTextOnly ==
    (result.called /\ result.op = "descriptor_search") =>
        \A i \in 1..Len(result.rows) : \E k \in 1..Len(facts) :
            /\ facts[k].unified_odor_id = result.rows[i].unified_odor_id
            /\ ContainsNoCase(facts[k].column, "descriptor")
            /\ facts[k].value_text.some
            /\ ContainsNoCase(facts[k].value_text.v, Strip(result.args.text))
            /\ (result.args.dataset.some /\ result.args.dataset.v # "")
                  => facts[k].slug = result.args.dataset.v

\* the odors rows of which one searched field contains the text
SubstringMatches(text) ==
    {r \in odors :
        \/ ContainsNoCase(r.unified_odor_id, text)
        \/ r.name.some /\ ContainsNoCase(r.name.v, text)
        \/ r.cid.some /\ ContainsNoCase(r.cid.v, text)
        \/ r.cas.some /\ ContainsNoCase(r.cas.v, text)
        \/ r.stimulus_first.some /\ ContainsNoCase(r.stimulus_first.v, text)}

\* the sequence holds distinct rows in ascending order of
\* name, else stimulus_first, else unified_odor_id
Ascending(q) ==
    \A i, j \in 1..Len(q) :
        i < j => /\ q[i] # q[j]
                 /\ ~StrLess(OrderKey(q[j]), OrderKey(q[i]))

\* C15: search_odors returns, in ascending order, the identities of which
\* one of the five fields contains the (trimmed) query case-insensitively:
\* all of them without a limit, and the first limit of them with one.
C15_SearchExactSubstring ==
    (result.called /\ result.op = "search_odors") =>
        LET matches == SubstringMatches(Strip(result.args.text))
            limit == result.args.limit
        IN  /\ Ascending(result.rows)
            /\ Range(result.rows) \subseteq matches
            /\ Len(result.rows) =
                  IF limit.some /\ limit.n < Cardinality(matches)
                  THEN limit.n ELSE Cardinality(matches)
            /\ \A r \in matches \ Range(result.rows) : \A i \in 1..Len(result.rows) :
                  ~StrLess(OrderKey(r), OrderKey(result.rows[i]))

\* what the read recorded in result may return in the current state
Answers ==
    CASE result.op = "list_odors" -> ListOdors(odors, result.args.limit)
      [] result.op = "search_odors" ->
            SearchOdors(odors, result.args.text, result.args.limit)
      [] result.op = "descriptor_search" ->
            DescriptorSearch(odors, facts, result.args.text, result.args.dataset,
                             result.args.limit)
      [] result.op = "get_odor_facts" -> {GetOdorFacts(facts, result.args.id)}
      [] result.op = "get_datasets_for_odor" -> {GetDatasetsForOdor(facts, result.args.id)}
      [] result.op = "list_all_datasets" -> {ListAllDatasets(facts)}
      [] result.op = "pivot" -> {Pivot(facts, result.args.ids)}

\* no row of the store can match the read recorded in result
NothingMatches ==
    CASE result.op = "list_odors" -> odors = {}
      [] result.op = "search_odors" ->
            /\ SubstringMatches(Strip(result.args.text)) = {}
            /\ ~Contains(result.args.text, "%") /\ ~Contains(result.args.text, "_")
      [] result.op = "descriptor_search" ->
            \A k \in 1..Len(facts) : ~ContainsNoCase(facts[k].column, "descriptor")
      [] result.op = "get_odor_facts" ->
            \A k \in 1..Len(facts) : facts[k].unified_odor_id # result.args.id
      [] result.op = "get_datasets_for_odor" ->
            \A k \in 1..Len(facts) : facts[k].unified_odor_id # result.args.id
      [] result.op = "list_all_datasets" -> facts = <<>>
      [] result.op = "pivot" ->
            \A k \in 1..Len(facts) : facts[k].unified_odor_id \notin result.args.ids

\* C16: a step that returns from a read leaves odors and odor_facts as
\* they were; a read that nothing matches returns the empty list; and the
\* value a read returned is still what the same read returns after any
\* reads that followed it.
C16_ReadsLeaveStore ==
    /\ [][result'.called => (odors' = odors /\ facts' = facts)]_vars
    /\ [](result.called =>
            /\ NothingMatches => result.rows = <<>>
            /\ result.rows \in Answers)

\* a read of an unknown odor returned the empty list from a store that
\* holds rows, in the middle of a run
C16_EmptyAnswer ==
    /\ result.called
    /\ result.op = "get_datasets_for_odor"
    /\ result.args.id = "nope"
    /\ result.rows = <<>>
    /\ odors # {} /\ facts # <<>>
    /\ run[1].pending # <<>>

\* the positions of the facts of one group of the wide view
GroupOf(id, slug, file, column) ==
    {k \in 1..Len(facts) :
        /\ facts[k].unified_odor_id = id /\ facts[k].slug = slug
        /\ facts[k].file = file /\ facts[k].column = column}

RECURSIVE SumOf(_)
\* the sum of the numeric values at the positions ks
SumOf(ks) ==
    IF ks = {} THEN FloatInt(0)
    ELSE LET k == CHOOSE x \in ks : TRUE
         IN  FloatAdd(SumOf(ks \ {k}), facts[k].value_num.f)

\* q is the arithmetic mean of the numeric values at the positions ks
IsMeanOf(q, ks) ==
    /\ q.cls = SumOf(ks).cls
    /\ q.cls = "inf" => q.m = SumOf(ks).m
    /\ q.cls = "fin" =>
          /\ q.d > 0
          /\ q.e = SumOf(ks).e
          /\ q.m * Cardinality(ks) = SumOf(ks).m * q.d

\* the values at the positions ks as strings, without repetition, in
\* ascending order, joined by "; "
JoinedTextOf(ks) ==
    Join(Sorted({IF facts[k].value_text.some THEN facts[k].value_text.v
                 ELSE FloatToStr(facts[k].value_num.f) : k \in ks}), "; ")

\* C17: the wide view has one row per (identity, dataset, file, column)
\* that has facts among the selected odors; its value is the arithmetic
\* mean of the group when all values of the group are numeric, and
\* otherwise the sorted, de-duplicated, "; "-joined strings of all values of
\* the group.
C17_PivotAggregates ==
    (result.called /\ result.op = "pivot") =>
        /\ {<<r.unified_odor_id, r.slug, r.file, r.column>> : r \in Range(result.rows)}
              = {<<facts[k].unified_odor_id, facts[k].slug, facts[k].file, facts[k].column>> :
                    k \in {j \in 1..Len(facts) :
                              facts[j].unified_odor_id \in result.args.ids}}
        /\ \A i, j \in 1..Len(result.rows) :
              (result.rows[i].unified_odor_id = result.rows[j].unified_odor_id
                 /\ result.rows[i].slug = result.rows[j].slug
                 /\ result.rows[i].file = result.rows[j].file
                 /\ result.rows[i].column = result.rows[j].column) => i = j
        /\ \A r \in Range(result.rows) :
              LET ks == GroupOf(r.unified_odor_id, r.slug, r.file, r.column)
              IN  IF \A k \in ks : facts[k].value_num.some
                  THEN r.value.k = "num" /\ IsMeanOf(r.value.q, ks)
                  ELSE r.value.k = "text" /\ r.value.s = JoinedTextOf(ks)

\* the wide view of two odors holds the mean 3.5 of the counts 3 and 4 and
\* the label set of a group of two texts and a number
C17_MeanAndLabels ==
    /\ result.called /\ result.op = "pivot"
    /\ \E r \in Range(result.rows) :
          /\ r.column = "N_Descriptors"
          /\ r.value = NumAgg([cls |-> "fin", m |-> 7, d |-> 2, e |-> 0])
    /\ \E r \in Range(result.rows) :
          /\ r.column = "Descriptor" /\ r.file = "behavior.csv"
          /\ r.value = TextAgg("3.2; Citrus; citrus")

\* the store after the calls of one run log, made in order on the tables st
RECURSIVE Replay(_, _, _)
Replay(log, slug, st) ==
    IF log = <<>> THEN st
    ELSE LET c == Head(log)
         IN  Replay(Tail(log), slug,
                    IF c.op = "upsert"
                    THEN [st EXCEPT !.odors = UpsertOdorRows(@, c.ident)]
                    ELSE [st EXCEPT !.facts =
                             InsertFactRows(@, c.ident, slug, c.file, c.column, c.value)])

\* what one run with the log leaves in an empty store
Alone(log, slug) == Replay(log, slug, [odors |-> {}, facts |-> <<>>])

\* the rows of a table of facts, with the number of times each occurs
BagOfFacts(rows) ==
    [r \in Range(rows) |-> Cardinality({k \in 1..Len(rows) : rows[k] = r})]

\* two direct runs of one dataset have both returned and no other call
\* was made on the store
TwoRunsDone ==
    /\ \A p \in Procs : run[p].pc = "idle"
    /\ Len(hist) = 2
    /\ \A k \in 1..2 :
          /\ hist[k].kind = "dataset"
          /\ Len(hist[k].ds) = 1
          /\ hist[k].ds[1].outcome = "ingested"
    /\ hist[1].arg = hist[2].arg

\* C18: after two runs of the same dataset on an empty store, however
\* their committed statements interleave, odors has one row per identity,
\* equal to the row one run alone leaves, and odor_facts holds every fact
\* of one run exactly twice as often as one run alone writes it.
C18_TwoRunsOneOdorsTwiceFacts ==
    TwoRunsDone =>
        LET one == Alone(hist[1].ds[1].log, hist[1].arg)
        IN  /\ hist[2].ds[1].log = hist[1].ds[1].log
            /\ odors = one.odors
            /\ \A r, s \in odors : r.unified_odor_id = s.unified_odor_id => r = s
            /\ Range(facts) = Range(one.facts)
            /\ \A r \in Range(facts) :
                  BagOfFacts(facts)[r] = 2 * BagOfFacts(one.facts)[r]

\* both runs began on the empty store, the run that returned first wrote
\* its last fact after the other had written some and before the other
\* had written all, and the smiles of the shared identity was filled
C18_Interleaved ==
    /\ TwoRunsDone
    /\ hist[1].ds[1].nfacts0 = 0 /\ hist[2].ds[1].nfacts0 = 0
    /\ hist[1].ds[1].odors0 = {} /\ hist[2].ds[1].odors0 = {}
    /\ 2 * hist[1].ds[1].nfacts1 > Len(facts)
    /\ hist[1].ds[1].nfacts1 < Len(facts)
    /\ \E r \in odors : r.smiles = Some("CCO") /\ r.stimulus_first = Some("y")

\* the cell of a CSV field that is missing (None, or the NaN of an empty
\* field) or holds whitespace only
MissingOrBlank(c) ==
    \/ c.k = "None"
    \/ IsFloatNaN(c)
    \/ c.k = "str" /\ Strip(c.s) = ""

\* process p is at a measurement row whose stimulus cell is missing or blank
AtBlankRow(p) ==
    /\ run[p].pc = "rows"
    /\ run[p].pending = <<>>
    /\ run[p].row <= Len(CurrentFile(p).rows)
    /\ MissingOrBlank(CurrentFile(p).rows[run[p].row][FindStimulusColumn(CurrentFile(p)).v])

\* C26: the step that takes a measurement row whose stimulus cell is
\* missing, empty or whitespace-only moves to the next row and does nothing
\* else: it builds no identity, queues no upsert and no fact, and leaves
\* both tables as they were.
C26_BlankStimulusSkipped ==
    [][\A p \in Procs :
          (AtBlankRow(p) /\ run'[p] # run[p]) =>
              /\ run'[p] = [run[p] EXCEPT !.row = @ + 1]
              /\ seen' = seen
              /\ odors' = odors
              /\ facts' = facts]_vars

\* what follows the four-character prefix of a unified id
AfterPrefix(uid) == SubSeq(uid, 5, Len(uid))

\* C22: in every state of the store the key fields of each odors row agree
\* with its unified id: "CID:" + c has cid = c; "CAS:" + a has a null cid
\* and cas = a; "OID:..." has null cid and cas and equals
\* "OID:" + slug_first + ":" + stimulus_first.
C22_KeyFieldsAgree ==
    \A r \in odors :
        /\ \/ StartsWith(r.unified_odor_id, "CID:")
           \/ StartsWith(r.unified_odor_id, "CAS:")
           \/ StartsWith(r.unified_odor_id, "OID:")
        /\ StartsWith(r.unified_odor_id, "CID:") =>
              r.cid = Some(AfterPrefix(r.unified_odor_id))
        /\ StartsWith(r.unified_odor_id, "CAS:") =>
              ~r.cid.some /\ r.cas = Some(AfterPrefix(r.unified_odor_id))
        /\ StartsWith(r.unified_odor_id, "OID:") =>
              /\ ~r.cid.some /\ ~r.cas.some
              /\ r.slug_first.some /\ r.stimulus_first.some
              /\ r.unified_odor_id = "OID:" \o r.slug_first.v \o ":" \o r.stimulus_first.v

\* the table holds a row of each kind of key, and the row keyed by a CID
\* carries the CAS that keys another row
C22_ThreeKindsOfKey ==
    \E r1, r2, r3 \in odors :
        /\ StartsWith(r1.unified_odor_id, "CAS:")
        /\ StartsWith(r2.unified_odor_id, "OID:")
        /\ StartsWith(r3.unified_odor_id, "CID:")
        /\ r3.cas = r1.cas

\* no row of the row has a non-blank value in a column of candidates
NoCandidateValue(row, candidates) ==
    row.some =>
        \A c \in Range(candidates) \cap Range(row.cols) : MissingOrBlank(row.cells[c])

\* no name column resolves for the identity: neither its stimulus row nor
\* its molecule row has a non-blank name candidate
NameUnresolved(ident) ==
    LET dir == fs.dirs[ident.slug]
        stim_row == GetStimulusRow(LoadStimuli(dir), ident.stimulus)
        mol_row == GetMoleculeRow(LoadMolecules(dir),
                       IF stim_row.some
                       THEN PickFirstPresent(stim_row, CID_CANDIDATES_STIM) ELSE None)
    IN  /\ NoCandidateValue(stim_row, NAME_CANDIDATES)
        /\ NoCandidateValue(mol_row, NAME_CANDIDATES)

\* the step commits the _upsert_odor call at the head of the calls of p
CommitsUpsert(p) ==
    /\ run[p].pc = "rows"
    /\ run[p].pending # <<>>
    /\ Head(run[p].pending).op = "upsert"
    /\ run'[p].pending = Tail(run[p].pending)

\* C24: every odors row has a non-null, non-empty name; the upsert that
\* inserts the row of an identity for which no name column resolves gives
\* it the stimulus label as name; and no step changes the name of a row, so
\* a name a later label or dataset supplies for the unified id never
\* replaces it.
C24_NameSetOnceNeverNull ==
    /\ [](\A r \in odors : r.name.some /\ r.name.v # "")
    /\ [][\A r \in odors : \E s \in odors' :
              s.unified_odor_id = r.unified_odor_id /\ s.name = r.name]_vars
    /\ [][\A p \in Procs :
              LET ident == Head(run[p].pending).ident
              IN  (/\ CommitsUpsert(p)
                   /\ \A r \in odors : r.unified_odor_id # ident.unified_odor_id
                   /\ NameUnresolved(ident))
                      => \E s \in odors' :
                            /\ s.unified_odor_id = ident.unified_odor_id
                            /\ s.name = Some(ident.stimulus)]_vars

\* a row named after its first label was upserted again under an identity
\* that carries a name from a name column, and keeps the label as name
C24_LabelNameKept ==
    \E r \in odors : \E log \in RunLogs : \E j \in 1..Len(log) :
        /\ log[j].op = "upsert"
        /\ log[j].ident.unified_odor_id = r.unified_odor_id
        /\ log[j].ident.name # Some(log[j].ident.stimulus)
        /\ log[j].ident.name # r.name
        /\ r.name = r.stimulus_first
        /\ r.name = Some("w")

\* the measurement rows of a dataset folder under the name slug that
\* ingestion takes: file name, row number, trimmed label and the unified
\* id the label resolves to
ResolvedIn(slug, dir) ==
    IF ~dir.listable \/ OverGate(CountBehaviorRows(dir)) THEN {}
    ELSE UNION {
        LET f == FileOf(dir, n)
        IN  IF ~FileUsable(f) THEN {}
            ELSE {[file |-> n, row |-> i,
                   label |-> StimValue(f.rows[i], FindStimulusColumn(f).v).v,
                   uid |-> ResolveIdentity(slug, LoadStimuli(dir), LoadMolecules(dir),
                               StimValue(f.rows[i], FindStimulusColumn(f).v).v).unified_odor_id] :
                     i \in {k \in 1..Len(f.rows) :
                              StimValue(f.rows[k], FindStimulusColumn(f).v).some}}
        : n \in {m \in ListDir(dir) : IsBehaviorCsv(m)}}

\* ResolvedIn, tabulated over the folder names and dataset folders of the
\* model
ResolvedTable ==
    [slug \in SlugNames |-> [dir \in DatasetMenu |-> ResolvedIn(slug, dir)]]

\* x comes before y: in an earlier file by name, or earlier in one file
RowBefore(x, y) ==
    \/ StrLess(x.file, y.file)
    \/ x.file = y.file /\ x.row < y.row

\* C25: in the table ingest_all leaves when it is the first call on an
\* empty store, every row has as slug_first the least folder name, in
\* string order, of the datasets taken in which a label resolves to its
\* unified id, and as stimulus_first the label of the first row resolving
\* to it in that dataset, files taken in the order of their names and rows
\* in file order.
C25_FirstSlugFirstLabel ==
    (Len(hist) >= 1 /\ hist[1].kind = "all") =>
        \A r \in hist[1].odors :
            LET in(slug) == {x \in ResolvedTable[slug][fs.dirs[slug]] :
                                x.uid = r.unified_odor_id}
                slugs == {s \in DOMAIN fs.dirs : in(s) # {}}
            IN  /\ r.slug_first.some /\ r.stimulus_first.some
                /\ r.slug_first.v \in slugs
                /\ \A s \in slugs : ~StrLess(s, r.slug_first.v)
                /\ \E x \in in(r.slug_first.v) :
                      /\ x.label = r.stimulus_first.v
                      /\ \A y \in in(r.slug_first.v) : ~RowBefore(y, x)

\* ingest_all has ingested two datasets that both resolve a label to one
\* CAS; the second label of the first folder resolves to it as well
C25_SharedByTwoFolders ==
    /\ Len(hist) >= 1 /\ hist[1].kind = "all" /\ ~hist[1].raised
    /\ fs.is_dir /\ DOMAIN fs.dirs = {"a", "a:b"}
    /\ \E r \in hist[1].odors :
          /\ r.unified_odor_id = "CAS:64-17-5"
          /\ r.slug_first = Some("a") /\ r.stimulus_first = Some("y")
          /\ \E x \in ResolvedTable["a:b"][fs.dirs["a:b"]] : x.uid = r.unified_odor_id
          /\ \E x \in ResolvedTable["a"][fs.dirs["a"]] :
                x.uid = r.unified_odor_id /\ x.label = "z"

\* the trimmed value of the first candidate, in list order, that the row
\* has with a non-blank value
FirstNonBlank(row, candidates) ==
    IF ~row.some \/ NoCandidateValue(row, candidates) THEN None
    ELSE LET has(i) == /\ candidates[i] \in Range(row.cols)
                       /\ ~MissingOrBlank(row.cells[candidates[i]])
             i == CHOOSE k \in 1..Len(candidates) :
                     has(k) /\ \A j \in 1..(k - 1) : ~has(j)
         IN  Some(Strip(PyStr(row.cells[candidates[i]])))

\* the other row is consulted only when the preferred row yields nothing
Preferring(preferred, other, candidates) ==
    IF FirstNonBlank(preferred, candidates).some
    THEN FirstNonBlank(preferred, candidates)
    ELSE FirstNonBlank(other, candidates)

\* C21: cas is the first non-blank CAS candidate of the stimulus row, else
\* of the molecule row; name and smiles are the first non-blank candidate
\* of the molecule row, else of the stimulus row; candidates are tried in
\* list order and a blank one is passed over.  (A name that resolves from
\* neither row is the label.)
C21_FirstMatchWins ==
    (probe.called /\ probe.kind = "rows") =>
        \A i \in seen :
            /\ i.cas = Preferring(probe.stim_row, probe.mol_row, CAS_CANDIDATES)
            /\ i.smiles = Preferring(probe.mol_row, probe.stim_row, SMILES_CANDIDATES)
            /\ i.name =
                  IF Preferring(probe.mol_row, probe.stim_row, NAME_CANDIDATES).some
                  THEN Preferring(probe.mol_row, probe.stim_row, NAME_CANDIDATES)
                  ELSE Some(probe.label)

\* the stimulus row has a blank CAS and a later CAS candidate, the
\* molecule row has both CAS columns, both name columns and no SMILES: cas
\* is the later candidate of the stimulus row, name the earlier one of the
\* molecule row, smiles comes from the stimulus row
C21_BlankPassedOver ==
    /\ probe.called /\ probe.kind = "rows"
    /\ probe.stim_row.some /\ probe.mol_row.some
    /\ "CAS" \in Range(probe.stim_row.cols)
    /\ "CAS" \in Range(probe.mol_row.cols)
    /\ "Name" \in Range(probe.stim_row.cols)
    /\ \E i \in seen :
          /\ i.cas = Some("sc2")
          /\ i.name = Some("mn1")
          /\ i.smiles = Some("ss1")

\* the stimulus row the lookup of a label matches
MatchedStimulusRow == GetStimulusRow(LoadStimuli(probe.dir), probe.label)

\* C23: the cid a label resolves to is the first non-blank CID candidate
\* of its matched stimulus row, absent when there is no such row or value;
\* in that case no molecule row is used: no fact of molecules.csv is
\* written and the identity is the one built from the stimulus row alone.
C23_CidFromStimulusRow ==
    (probe.called /\ probe.kind = "tables") =>
        \A i \in seen :
            /\ i.cid = FirstNonBlank(MatchedStimulusRow, CID_CANDIDATES_STIM)
            /\ ~FirstNonBlank(MatchedStimulusRow, CID_CANDIDATES_STIM).some =>
                  /\ \A k \in 1..Len(hist) : hist[k].file # "molecules.csv"
                  /\ i = IdentityFromRows("a", probe.label, MatchedStimulusRow, NoRow)

\* label x has its CID 7 under the later spelling; the molecule row of
\* CID 7 gives the name and facts of molecules.csv are written
C23_MoleculeRowUsed ==
    /\ probe.called /\ probe.kind = "tables"
    /\ probe.label = "x"
    /\ \E i \in seen : i.cid = Some("7") /\ i.name = Some("Ethanol")
    /\ \E k \in 1..Len(hist) : hist[k].file = "molecules.csv"

====
